---- MODULE Spec2Model ----
(***************************************************************************)
(* Model of the BowlBot aggregation and matchup engine                     *)
(* (src/sheets_handler.py, class ExcelHandler).                            *)
(*                                                                         *)
(* The record store is one season sheet of the workbook: an ordered        *)
(* sequence of rows.  Every cell is a tagged value (blank, number, string  *)
(* or boolean), strings are sequences of one-character strings so that     *)
(* strip(), lower() and the substring test of the name matching are        *)
(* computed rather than assumed.  Numbers are integers (pin counts), so    *)
(* float() and int() of the source are exact on them; averages are kept in *)
(* hundredths, as round(x, 2) produces them.                               *)
(***************************************************************************)
EXTENDS Integers, Sequences, FiniteSets, TLC

VARIABLES sheet, ret, adds

vars == <<sheet, ret, adds>>

----------------------------------------------------------------------------
(* Cell values *)

None == [t |-> "none"]
Num(n) == [t |-> "num", v |-> n]
Str(s) == [t |-> "str", v |-> s]
Bool(b) == [t |-> "bool", v |-> b]

IsNone(c) == c.t = "none"
IsStr(c) == c.t = "str"

\* Python truthiness of a cell value ("if value", "not value").
Truthy(c) ==
  CASE c.t = "none" -> FALSE
    [] c.t = "num" -> c.v # 0
    [] c.t = "str" -> c.v # <<>>
    [] c.t = "bool" -> c.v

----------------------------------------------------------------------------
(* Strings *)

UpperLetters ==
  <<"A","B","C","D","E","F","G","H","I","J","K","L","M",
    "N","O","P","Q","R","S","T","U","V","W","X","Y","Z">>

LowerLetters ==
  <<"a","b","c","d","e","f","g","h","i","j","k","l","m",
    "n","o","p","q","r","s","t","u","v","w","x","y","z">>

LowerChar(c) ==
  IF \E i \in 1..26 : UpperLetters[i] = c
  THEN LowerLetters[CHOOSE i \in 1..26 : UpperLetters[i] = c]
  ELSE c

UpperChar(c) ==
  IF \E i \in 1..26 : LowerLetters[i] = c
  THEN UpperLetters[CHOOSE i \in 1..26 : LowerLetters[i] = c]
  ELSE c

\* str.lower() and str.upper()
Lower(s) == [i \in 1..Len(s) |-> LowerChar(s[i])]
Upper(s) == [i \in 1..Len(s) |-> UpperChar(s[i])]

\* str.strip(): drops leading and trailing blanks
RECURSIVE LStrip(_)
LStrip(s) == IF s # <<>> /\ Head(s) = " " THEN LStrip(Tail(s)) ELSE s

RECURSIVE RStrip(_)
RStrip(s) ==
  IF s # <<>> /\ s[Len(s)] = " " THEN RStrip(SubSeq(s, 1, Len(s) - 1)) ELSE s

Strip(s) == RStrip(LStrip(s))

\* Python "needle in hay" on strings
Contains(hay, needle) ==
  \E i \in 0..(Len(hay) - Len(needle)) :
     SubSeq(hay, i + 1, i + Len(needle)) = needle

\* The name matching used for teams, opponents and players:
\*   a.lower() in b.lower() or b.lower() in a.lower()
EitherContains(a, b) == Contains(b, a) \/ Contains(a, b)

NameMatch(a, b) == EitherContains(Lower(a), Lower(b))

Digits == <<"0","1","2","3","4","5","6","7","8","9">>

IsDigit(c) == \E i \in 1..10 : Digits[i] = c

DigitVal(c) == (CHOOSE i \in 1..10 : Digits[i] = c) - 1

RECURSIVE DigitsVal(_)
DigitsVal(s) ==
  IF s = <<>> THEN 0
  ELSE 10 * DigitsVal(SubSeq(s, 1, Len(s) - 1)) + DigitVal(s[Len(s)])

\* float(text) on integer literals: blanks around, optional sign, digits;
\* anything else raises ValueError (ok = FALSE)
SignedDigits(neg, body) ==
  IF body # <<>> /\ \A i \in 1..Len(body) : IsDigit(body[i])
  THEN [ok |-> TRUE, v |-> IF neg THEN 0 - DigitsVal(body) ELSE DigitsVal(body)]
  ELSE [ok |-> FALSE, v |-> 0]

ParseStripped(s) ==
  IF s # <<>> /\ Head(s) \in {"-", "+"}
  THEN SignedDigits(Head(s) = "-", Tail(s))
  ELSE SignedDigits(FALSE, s)

ParseNum(text) == ParseStripped(Strip(text))

RECURSIVE NatStr(_)
NatStr(n) ==
  IF n < 10 THEN <<Digits[n + 1]>>
  ELSE NatStr(n \div 10) \o <<Digits[(n % 10) + 1]>>

\* str(value) of a cell value
PyStr(c) ==
  CASE c.t = "none" -> <<"N","o","n","e">>
    [] c.t = "num" -> IF c.v < 0 THEN <<"-">> \o NatStr(0 - c.v) ELSE NatStr(c.v)
    [] c.t = "str" -> c.v
    [] c.t = "bool" -> IF c.v THEN <<"T","r","u","e">> ELSE <<"F","a","l","s","e">>

----------------------------------------------------------------------------
(* Coercions of ExcelHandler *)

BoolNum(b) == IF b THEN 1 ELSE 0

\* the parsed value, or the default when float()/int() raised
ParsedOrDefault(p) == IF p.ok THEN p.v ELSE 0

\* _safe_float(value, default=0.0)
SafeFloat(c) ==
  CASE c.t = "none" -> 0
    [] c.t = "num" -> c.v
    [] c.t = "bool" -> BoolNum(c.v)
    [] c.t = "str" -> ParsedOrDefault(ParseNum(c.v))

\* _safe_int(value, default=0)
SafeInt(c) ==
  CASE c.t = "none" -> 0
    [] c.t = "num" -> c.v
    [] c.t = "bool" -> BoolNum(c.v)
    [] c.t = "str" -> ParsedOrDefault(ParseNum(c.v))

FlagWords == { <<"Y">>, <<"Y","E","S">>, <<"T","R","U","E">>, <<"1">> }

\* _is_absent(value)
IsAbsent(c) ==
  CASE c.t = "none" -> FALSE
    [] c.t = "bool" -> c.v
    [] c.t = "str" -> Upper(c.v) \in FlagWords
    [] c.t = "num" -> c.v # 0

\* _is_substitute(value)
IsSubstitute(c) ==
  CASE c.t = "none" -> FALSE
    [] c.t = "bool" -> c.v
    [] c.t = "str" -> Upper(c.v) \in FlagWords
    [] c.t = "num" -> c.v # 0

----------------------------------------------------------------------------
(* Arithmetic helpers *)

RECURSIVE SumSeq(_)
SumSeq(s) == IF s = <<>> THEN 0 ELSE Head(s) + SumSeq(Tail(s))

RECURSIVE ProdSeq(_)
ProdSeq(s) == IF s = <<>> THEN 1 ELSE Head(s) * ProdSeq(Tail(s))

RECURSIVE Concat(_)
Concat(ss) == IF ss = <<>> THEN <<>> ELSE Head(ss) \o Concat(Tail(ss))

\* order of first appearance (insertion order of a dict's keys)
RECURSIVE Dedupe(_)
Dedupe(s) ==
  IF s = <<>> THEN <<>>
  ELSE LET front == Dedupe(SubSeq(s, 1, Len(s) - 1))
           x == s[Len(s)]
       IN IF \E i \in 1..Len(front) : front[i] = x THEN front
          ELSE Append(front, x)

Range(s) == { s[i] : i \in 1..Len(s) }

\* n/d rounded to the nearest integer, ties to the even one (Python round)
RoundDiv(n, d) ==
  LET q == n \div d
      r == n % d
  IN IF 2 * r < d THEN q
     ELSE IF 2 * r > d THEN q + 1
     ELSE IF q % 2 = 0 THEN q ELSE q + 1

\* round(total / count, 2), in hundredths
Round2(total, count) == RoundDiv(100 * total, count)

\* round(mean of the fractions tot[i]/cnt[i], 2), in hundredths; 0 if none
MeanOfAverages(tots, cnts) ==
  IF tots = <<>> THEN 0
  ELSE LET n == Len(tots)
           den == ProdSeq(cnts)
           num == SumSeq([i \in 1..n |-> tots[i] * (den \div cnts[i])])
       IN RoundDiv(100 * num, den * n)

----------------------------------------------------------------------------
(* The workbook *)

NumSlots == 5

Slots == 1..NumSlots

\* the workbook holds the single sheet "Season 1"
SeasonNums == {1}

SeasonName(n) == <<"S","e","a","s","o","n"," ">> \o NatStr(n)

\* last token of season.split()
MinOf(S) == CHOOSE i \in S : \A j \in S : i <= j

TailToken(t) ==
  IF t = <<>> THEN <<>>
  ELSE SubSeq(t, MinOf({ i \in 1..Len(t) : \A j \in i..Len(t) : t[j] # " " }),
              Len(t))

LastToken(s) == TailToken(RStrip(s))

\* _get_current_season(): the season sheet with the highest number
CurrentSeason == SeasonName(CHOOSE n \in SeasonNums : \A m \in SeasonNums : m <= n)

\* _get_season_number(season): 0 stands for None
TokenNumber(tok) ==
  IF tok # <<>> /\ \A i \in 1..Len(tok) : tok[i] # " "
  THEN ParsedOrDefault(ParseNum(tok)) ELSE 0

SeasonNumber(season) ==
  TokenNumber(LastToken(IF IsNone(season) THEN CurrentSeason ELSE season.v))

\* the season sheet exists in workbook.sheetnames
SeasonFound(season) == SeasonNumber(season) \in SeasonNums

\* row_season == season_num (a bool cell compares as 0/1)
SeasonEq(c, n) ==
  \/ c.t = "num" /\ c.v = n
  \/ c.t = "bool" /\ BoolNum(c.v) = n

\* value of game slot k of a row as the loops read it: the cell when it is
\* not None and its float is > 0, else nothing (0)
PositiveOrZero(x) == IF x > 0 THEN x ELSE 0

SlotValue(row, k) ==
  IF IsNone(row.games[k]) THEN 0 ELSE PositiveOrZero(SafeFloat(row.games[k]))

\* the "games" list of a row: the played values in slot order
RowGames(row) ==
  LET all == [k \in Slots |-> SlotValue(row, k)]
  IN SelectSeq(all, LAMBDA x : x > 0)

ZeroSlots == [k \in Slots |-> 0]

\* per-slot sums over a sequence of rows
SlotSums(rows) ==
  [k \in Slots |-> SumSeq([i \in 1..Len(rows) |-> SlotValue(rows[i], k)])]

SumSlots(f) == SumSeq([k \in Slots |-> f[k]])

\* first name of a key order matched by a label; <<>> index 0 when none
MinOrZero(hits) == IF hits = {} THEN 0 ELSE MinOf(hits)

FirstMatch_OneWay(label, order) ==
  MinOrZero({ i \in 1..Len(order) : Contains(Lower(order[i]), Lower(label)) })

FirstMatch(label, order) ==
  MinOrZero({ i \in 1..Len(order) : NameMatch(label, order[i]) })

\* SlotWins with a tie counted as a win (>= for >)
SlotWins_TieWins(own, opp) ==
  Cardinality({ k \in Slots : (own[k] > 0 \/ opp[k] > 0) /\ own[k] >= opp[k] })

\* the slot-by-slot comparison of two teams' totals
SlotWins(own, opp) ==
  Cardinality({ k \in Slots : (own[k] > 0 \/ opp[k] > 0) /\ own[k] > opp[k] })

SlotLosses(own, opp) ==
  Cardinality({ k \in Slots : (own[k] > 0 \/ opp[k] > 0) /\ own[k] < opp[k] })

SlotTies(own, opp) ==
  Cardinality({ k \in Slots : (own[k] > 0 \/ opp[k] > 0) /\ own[k] = opp[k] })

----------------------------------------------------------------------------
(* Results *)

ErrorResult == [kind |-> "error"]

\* an exception that leaves the handler (AttributeError of .strip())
RaiseResult == [kind |-> "raise"]

----------------------------------------------------------------------------
(* get_team_scores(team_name, season, week)                                *)

\* first loop: the rows that reach "team = row_team.strip()"
GTS_Rows(sh, sn, week) ==
  SelectSeq(sh, LAMBDA r :
    /\ SeasonEq(r.season, sn)
    /\ (IsNone(week) \/ SafeInt(r.week) = week.v)
    /\ Truthy(r.team) /\ IsStr(r.team))

\* keys of a dict of teams (team_data, all_teams), in insertion order
TeamKeys(rows) == Dedupe([i \in 1..Len(rows) |-> Strip(rows[i].team.v)])

\* rows feeding team_data[team]["players"]: not substitute, not absent
GTS_PlayerRows(rows, team) ==
  SelectSeq(rows, LAMBDA r :
    /\ Strip(r.team.v) = team
    /\ ~IsSubstitute(r.substitute) /\ ~IsAbsent(r.absent)
    /\ Truthy(r.player) /\ IsStr(r.player))

\* keys of team_data[team]["players"], in insertion order
PlayerKeys(mine) == Dedupe([i \in 1..Len(mine) |-> Strip(mine[i].player.v)])

GTS_PlayerOrder(rows, team) == PlayerKeys(GTS_PlayerRows(rows, team))

\* team_data[team]["players"][player]["games"]
GamesOf(mine) == Concat([i \in 1..Len(mine) |-> RowGames(mine[i])])

GTS_PlayerGames(rows, team, player) ==
  GamesOf(SelectSeq(GTS_PlayerRows(rows, team),
                    LAMBDA r : Strip(r.player.v) = player))

\* rows feeding team_data[team]["weekly_totals"]: not substitute, week > 0
GTS_WeekRows(rows, team) ==
  SelectSeq(rows, LAMBDA r :
    /\ Strip(r.team.v) = team
    /\ ~IsSubstitute(r.substitute)
    /\ ~IsNone(r.week) /\ SafeInt(r.week) > 0)

\* keys of team_data[team]["weekly_totals"]
WeeksOf(mine) == { SafeInt(mine[i].week) : i \in 1..Len(mine) }

GTS_Weeks(rows, team) == WeeksOf(GTS_WeekRows(rows, team))

\* the pins of a sequence of rows: the week_total of each, added up
PinsOf(mine) == SumSeq([i \in 1..Len(mine) |-> SumSeq(RowGames(mine[i]))])

\* GTS_WeekPins that keeps the first row's total only (= for +=)
GTS_WeekPins_FirstRow(rows, team, w) ==
  LET mine == SelectSeq(GTS_WeekRows(rows, team), LAMBDA r : SafeInt(r.week) = w)
  IN SumSeq(RowGames(mine[1]))

\* weekly_totals[w]["pins"]: week_total of every row of the entry
GTS_WeekPins(rows, team, w) ==
  PinsOf(SelectSeq(GTS_WeekRows(rows, team), LAMBDA r : SafeInt(r.week) = w))

\* str(opponent).strip() if opponent else None
OpponentLabel(c) == IF Truthy(c) THEN Str(Strip(PyStr(c))) ELSE None

\* weekly_totals[w]["opponent"]: set by the first row that creates the entry
GTS_WeekOpponent(rows, team, w) ==
  OpponentLabel(
    SelectSeq(GTS_WeekRows(rows, team), LAMBDA r : SafeInt(r.week) = w)[1].opponent)

\* the rows the second and third loops sum for (team, w); they read the
\* whole sheet again, whatever the week parameter (a team cell that is not a
\* string makes them raise, see GTS_Raises)
GTS_SlotRows(sh, sn, team, w) ==
  SelectSeq(sh, LAMBDA r :
    /\ SeasonEq(r.season, sn)
    /\ Truthy(r.team) /\ IsStr(r.team) /\ Strip(r.team.v) = team
    /\ SafeInt(r.week) = w
    /\ ~IsSubstitute(r.substitute))

\* team_weekly_game_totals[w] and opp_games
GTS_SlotTotals(sh, sn, team, w) == SlotSums(GTS_SlotRows(sh, sn, team, w))

\* row_team.strip() on a team cell that is not a string
GTS_Raises(sh, sn, rows) ==
  /\ rows # <<>>
  /\ \E i \in 1..Len(sh) :
       SeasonEq(sh[i].season, sn) /\ Truthy(sh[i].team) /\ ~IsStr(sh[i].team)

\* opp_team_found for an opponent label: the first key of team_data that
\* matches it, <<>> standing for None (order: TeamKeys)
NotFound == [found |-> FALSE, team |-> <<>>]

FoundAt(order, i) == IF i = 0 THEN NotFound ELSE [found |-> TRUE, team |-> order[i]]

GTS_OppFound(order, label) == FoundAt(order, FirstMatch(label.v, order))

\* opp_games of one week entry
GTS_FoundTotals(sh, sn, opp, w) ==
  IF opp.found /\ opp.team # <<>> THEN GTS_SlotTotals(sh, sn, opp.team, w)
  ELSE ZeroSlots

GTS_OppTotals(sh, sn, rows, team, w) ==
  GTS_FoundTotals(sh, sn,
    GTS_OppFound(TeamKeys(rows), GTS_WeekOpponent(rows, team, w)), w)

\* "if opponent_name and team_games": the week entry is compared
GTS_Compared(rows, team, w) == Truthy(GTS_WeekOpponent(rows, team, w))

\* the comparison loop over the slots of one week entry
SlotOutcome(own, opp) ==
  [wins |-> SlotWins(own, opp),
   losses |-> SlotLosses(own, opp),
   ties |-> SlotTies(own, opp),
   pins_against |-> SumSlots(opp)]

NoOutcome == [wins |-> 0, losses |-> 0, ties |-> 0, pins_against |-> 0]

\* GTS_WeekOutcome that adds the team's own totals to pins_against
GTS_WeekOutcome_OwnPins(sh, sn, rows, team, w) ==
  IF GTS_Compared(rows, team, w)
  THEN LET own == GTS_SlotTotals(sh, sn, team, w)
           opp == GTS_OppTotals(sh, sn, rows, team, w)
       IN [wins |-> SlotWins(own, opp),
           losses |-> SlotLosses(own, opp),
           ties |-> SlotTies(own, opp),
           pins_against |-> SumSlots(own)]
  ELSE [wins |-> 0, losses |-> 0, ties |-> 0, pins_against |-> 0]

\* what one week entry adds to wins, losses, ties and pins_against
GTS_WeekOutcome(sh, sn, rows, team, w) ==
  IF GTS_Compared(rows, team, w)
  THEN SlotOutcome(GTS_SlotTotals(sh, sn, team, w),
                   GTS_OppTotals(sh, sn, rows, team, w))
  ELSE NoOutcome

RECURSIVE SumOver(_, _)
SumOver(S, f) ==
  IF S = {} THEN 0
  ELSE LET x == CHOOSE y \in S : TRUE IN f[x] + SumOver(S \ {x}, f)

\* average of one player's games, in hundredths
PlayerAverage(g) == Round2(SumSeq(g), Len(g))

IndexOf(order, p) == CHOOSE i \in 1..Len(order) : order[i] = p

\* AvgPerGame as the pins of all players over the games of all players
AvgPerGame_PinsPerGame(with) ==
  IF with = <<>> THEN 0
  ELSE Round2(SumSeq([i \in 1..Len(with) |-> SumSeq(with[i])]),
              SumSeq([i \in 1..Len(with) |-> Len(with[i])]))

\* team average: the mean of the averages of the players who have games
AvgPerGame(with) ==
  MeanOfAverages([i \in 1..Len(with) |-> SumSeq(with[i])],
                 [i \in 1..Len(with) |-> Len(with[i])])

\* team_result from the week entries (out, pins) and the players' games
GTS_Assemble(weeks, out, pins, order, games) ==
  [wins |-> SumOver(weeks, [w \in weeks |-> out[w].wins]),
   losses |-> SumOver(weeks, [w \in weeks |-> out[w].losses]),
   ties |-> SumOver(weeks, [w \in weeks |-> out[w].ties]),
   pins_for |-> SumOver(weeks, pins),
   pins_against |-> SumOver(weeks, [w \in weeks |-> out[w].pins_against]),
   avg_per_game |-> AvgPerGame(SelectSeq(games, LAMBDA g : g # <<>>)),
   players |-> [p \in { order[i] : i \in { j \in 1..Len(order) : games[j] # <<>> } }
                  |-> PlayerAverage(games[IndexOf(order, p)])]]

GTS_ResultOver(sh, sn, rows, team, weeks, order) ==
  GTS_Assemble(weeks,
               [w \in weeks |-> GTS_WeekOutcome(sh, sn, rows, team, w)],
               [w \in weeks |-> GTS_WeekPins(rows, team, w)],
               order,
               [i \in 1..Len(order) |-> GTS_PlayerGames(rows, team, order[i])])

\* team_result
GTS_TeamResult(sh, sn, rows, team) ==
  GTS_ResultOver(sh, sn, rows, team,
                 GTS_Weeks(rows, team), GTS_PlayerOrder(rows, team))

UnknownName == <<"U","n","k","n","o","w","n">>

\* r_player.strip() if r_player else "Unknown"
GTS_DetailPlayer(r) == IF Truthy(r.player) THEN Strip(r.player.v) ELSE UnknownName

\* the week-detail view sums the k-th PLAYED game of each row into slot k
PlayedAt(g, k) == IF k <= Len(g) THEN g[k] ELSE 0

GTS_DetailTotals(rows) ==
  [k \in Slots |->
     SumSeq([i \in 1..Len(rows) |-> PlayedAt(RowGames(rows[i]), k)])]

\* player_scores[player] keeps the games of the player's last row
LastRowOf(played, p) ==
  CHOOSE i \in 1..Len(played) :
     /\ GTS_DetailPlayer(played[i]) = p
     /\ \A j \in (i + 1)..Len(played) : GTS_DetailPlayer(played[j]) # p

\* the opponent of the week-detail view: looked up unless "Unknown"
GTS_DetailFound(order, label) ==
  IF Truthy(label) /\ label.v # UnknownName THEN GTS_OppFound(order, label)
  ELSE NotFound

GTS_DetailResult(team, label, played, cmp, own, opp) ==
  [kind |-> "week", team |-> team, opponent |-> label,
   players |-> [p \in { GTS_DetailPlayer(played[i]) : i \in 1..Len(played) }
                  |-> RowGames(played[LastRowOf(played, p)])],
   total |-> PinsOf(played),
   wins |-> IF cmp THEN SlotWins(own, opp) ELSE 0,
   losses |-> IF cmp THEN SlotLosses(own, opp) ELSE 0,
   ties |-> IF cmp THEN SlotTies(own, opp) ELSE 0]

GTS_DetailCompare(sh, sn, team, wp, label, played, found) ==
  GTS_DetailResult(team, label, played, found.found /\ found.team # <<>>,
                   GTS_DetailTotals(played), GTS_FoundTotals(sh, sn, found, wp))

GTS_DetailView(sh, sn, rows, team, wp, mine, label) ==
  IF \E j \in 1..Len(mine) : Truthy(mine[j].player) /\ ~IsStr(mine[j].player)
  THEN RaiseResult
  ELSE GTS_DetailCompare(sh, sn, team, wp, label,
                         SelectSeq(mine, LAMBDA r : RowGames(r) # <<>>),
                         GTS_DetailFound(TeamKeys(rows), label))

\* the week-detail view of get_team_scores(team_name, season, week)
GTS_WeekDetail(sh, sn, rows, team, wp) ==
  GTS_DetailView(sh, sn, rows, team, wp,
                 GTS_SlotRows(sh, sn, team, wp), GTS_WeekOpponent(rows, team, wp))

\* the view of one named team: the week detail or the season result
GTS_TeamView(sh, sn, rows, team, team_name, week) ==
  IF ~IsNone(week) /\ Truthy(team_name)
  THEN IF week.v \in GTS_Weeks(rows, team)
       THEN GTS_WeekDetail(sh, sn, rows, team, week.v)
       ELSE ErrorResult
  ELSE [kind |-> "team", team |-> team,
        stats |-> GTS_TeamResult(sh, sn, rows, team)]

GTS_Named(sh, sn, rows, order, i, team_name, week) ==
  IF i = 0
  THEN IF Truthy(team_name) THEN ErrorResult
       ELSE [kind |-> "teams", teams |-> <<>>]
  ELSE GTS_TeamView(sh, sn, rows, order[i], team_name, week)

GTS_Result(sh, sn, rows, order, team_name, week) ==
  IF GTS_Raises(sh, sn, rows) THEN RaiseResult
  ELSE IF IsNone(team_name)
    THEN [kind |-> "teams",
          teams |-> [t \in Range(order) |-> GTS_TeamResult(sh, sn, rows, t)]]
  ELSE GTS_Named(sh, sn, rows, order, FirstMatch(team_name.v, order),
                 team_name, week)

GTS_OnSeason(sh, sn, team_name, week) ==
  GTS_Result(sh, sn, GTS_Rows(sh, sn, week),
             TeamKeys(GTS_Rows(sh, sn, week)), team_name, week)

\* get_team_scores: team_name and week are cells (None when not given),
\* season is None or a season name
GetTeamScores(sh, team_name, season, week) ==
  IF ~SeasonFound(season) THEN ErrorResult
  ELSE GTS_OnSeason(sh, SeasonNumber(season), team_name, week)

----------------
(* get_team_weekly_summary(team_name, season)                              *)

\* team_found: the stripped team of the first row of the sheet, of any
\* season, whose team matches team_name; <<>> when there is none
TeamOfFirst(sh, hits) == IF hits = {} THEN <<>> ELSE Strip(sh[MinOf(hits)].team.v)

GTWS_TeamFound(sh, team_name) ==
  TeamOfFirst(sh, { i \in 1..Len(sh) :
                     /\ Truthy(sh[i].team) /\ IsStr(sh[i].team)
                     /\ NameMatch(team_name, Strip(sh[i].team.v)) })

\* GTWS_AllRows that also leaves out the absent rows
GTWS_AllRows_SkipAbsent(sh, sn) ==
  SelectSeq(sh, LAMBDA r :
    /\ SeasonEq(r.season, sn)
    /\ Truthy(r.team) /\ IsStr(r.team)
    /\ ~IsSubstitute(r.substitute) /\ ~IsAbsent(r.absent)
    /\ SafeInt(r.week) > 0)

\* rows summed into all_teams: season, team set, not substitute, week > 0
GTWS_AllRows(sh, sn) ==
  SelectSeq(sh, LAMBDA r :
    /\ SeasonEq(r.season, sn)
    /\ Truthy(r.team) /\ IsStr(r.team)
    /\ ~IsSubstitute(r.substitute)
    /\ SafeInt(r.week) > 0)

\* keys of all_teams, in insertion order
GTWS_TeamOrder(sh, sn) == TeamKeys(GTWS_AllRows(sh, sn))

GTWS_TeamRows(sh, sn, team, w) ==
  SelectSeq(GTWS_AllRows(sh, sn), LAMBDA r :
    Strip(r.team.v) = team /\ SafeInt(r.week) = w)

\* "week in all_teams[team]"
GTWS_HasWeek(sh, sn, team, w) == GTWS_TeamRows(sh, sn, team, w) # <<>>

\* all_teams[team][w] and weekly_data[w]["game_totals"]
GTWS_SlotTotals(sh, sn, team, w) == SlotSums(GTWS_TeamRows(sh, sn, team, w))

\* keys of weekly_data
GTWS_Weeks(sh, sn, team) ==
  { w \in { SafeInt(sh[i].week) : i \in 1..Len(sh) } :
      GTWS_HasWeek(sh, sn, team, w) }

\* str(opponent).strip() if opponent else "Unknown", of the first row
LabelOrUnknown(c) == IF Truthy(c) THEN Strip(PyStr(c)) ELSE UnknownName

GTWS_Opponent(sh, sn, team, w) ==
  LabelOrUnknown(GTWS_TeamRows(sh, sn, team, w)[1].opponent)

\* opp_team_found of a week, <<>> when None; an empty name is falsy, so
\* "if opp_team_found and ..." treats it as not found
KeyAt(order, i) == IF i = 0 THEN <<>> ELSE order[i]

GTWS_OppFound(sh, sn, team, w) ==
  KeyAt(GTWS_TeamOrder(sh, sn),
        FirstMatch(GTWS_Opponent(sh, sn, team, w), GTWS_TeamOrder(sh, sn)))

\* the comparison runs: opponent found and it has the week
GTWS_OppHasWeek(sh, sn, opp, w) == opp # <<>> /\ GTWS_HasWeek(sh, sn, opp, w)

GTWS_Compared(sh, sn, team, w) ==
  GTWS_OppHasWeek(sh, sn, GTWS_OppFound(sh, sn, team, w), w)

\* number of played games of the team's rows of the week
GamesPlayed(rows) == SumSeq([i \in 1..Len(rows) |-> Len(RowGames(rows[i]))])

GTWS_GameCount(sh, sn, team, w) == GamesPlayed(GTWS_TeamRows(sh, sn, team, w))

\* opp_game_totals of a week: the opponent's totals when it is compared
GTWS_OppTotals(sh, sn, opp, w) ==
  IF GTWS_OppHasWeek(sh, sn, opp, w) THEN GTWS_SlotTotals(sh, sn, opp, w)
  ELSE ZeroSlots

\* weekly_data[w]; avg is the quotient of .pins by .games (0 when no game)
GTWS_Entry(label, own, cmp, opp, games) ==
  [opponent |-> label,
   game_totals |-> own,
   opp_game_totals |-> opp,
   wins |-> IF cmp THEN SlotWins(own, opp) ELSE 0,
   losses |-> IF cmp THEN SlotLosses(own, opp) ELSE 0,
   ties |-> IF cmp THEN SlotTies(own, opp) ELSE 0,
   avg |-> [pins |-> SumSlots(own), games |-> games],
   pins_for |-> SumSlots(own),
   pins_against |-> SumSlots(opp)]

GTWS_WeekInfo(sh, sn, team, w) ==
  GTWS_Entry(GTWS_Opponent(sh, sn, team, w),
             GTWS_SlotTotals(sh, sn, team, w),
             GTWS_Compared(sh, sn, team, w),
             GTWS_OppTotals(sh, sn, GTWS_OppFound(sh, sn, team, w), w),
             GTWS_GameCount(sh, sn, team, w))

\* row_team.strip() on a team cell that is not a string
GTWS_Raises(sh, sn) ==
  \E i \in 1..Len(sh) :
     SeasonEq(sh[i].season, sn) /\ Truthy(sh[i].team) /\ ~IsStr(sh[i].team)

GTWS_Result(sh, season, sn, team) ==
  IF team = <<>> THEN ErrorResult
  ELSE IF GTWS_Raises(sh, sn) THEN RaiseResult
  ELSE [kind |-> "summary", team |-> team,
        season |-> IF Truthy(season) THEN season.v ELSE SeasonName(sn),
        weekly_summary |->
          [w \in GTWS_Weeks(sh, sn, team) |-> GTWS_WeekInfo(sh, sn, team, w)]]

\* get_team_weekly_summary: team_name is a string, season None or a name
GetTeamWeeklySummary(sh, team_name, season) ==
  IF ~SeasonFound(season) THEN ErrorResult
  ELSE GTWS_Result(sh, season, SeasonNumber(season), GTWS_TeamFound(sh, team_name))

----------------------------------------------------------------------------
(* get_league_stats(season)                                                *)

TopGamesCap == 10

TopPlayerWeeksCap == 10

TopTeamTotalsCap == 5

\* list.sort(key=..., reverse=True): descending and stable
RECURSIVE SortDesc(_, _)
SortDesc(s, keys) ==
  IF s = <<>> THEN <<>>
  ELSE LET n == Len(s)
           front == SortDesc(SubSeq(s, 1, n - 1), SubSeq(keys, 1, n - 1))
           before == Cardinality({ i \in 1..(n - 1) : keys[i] >= keys[n] })
       IN SubSeq(front, 1, before) \o <<s[n]>> \o SubSeq(front, before + 1, n - 1)

\* list[:n]
Take_OneMore(s, n) == SubSeq(s, 1, IF Len(s) < n + 1 THEN Len(s) ELSE n + 1)

Take(s, n) == SubSeq(s, 1, IF Len(s) < n THEN Len(s) ELSE n)

\* GLS_Rows without the substitute test
GLS_Rows_KeepSubstitutes(sh, sn) ==
  SelectSeq(sh, LAMBDA r :
    /\ SeasonEq(r.season, sn)
    /\ Truthy(r.team) /\ IsStr(r.team))

\* rows that pass the season, team and substitute tests
GLS_Rows(sh, sn) ==
  SelectSeq(sh, LAMBDA r :
    /\ SeasonEq(r.season, sn)
    /\ Truthy(r.team) /\ IsStr(r.team)
    /\ ~IsSubstitute(r.substitute))

\* individual_games, in scan order
GLS_GamesOver(rows) ==
  Concat([i \in 1..Len(rows) |->
    [j \in 1..Len(RowGames(rows[i])) |->
       [player |-> rows[i].player, team |-> Strip(rows[i].team.v),
        week |-> SafeInt(rows[i].week), score |-> RowGames(rows[i])[j]]]])

GLS_Games(sh, sn) == GLS_GamesOver(GLS_Rows(sh, sn))

\* rows feeding player_averages: not absent, player set
GLS_PlayerRows(sh, sn) ==
  SelectSeq(GLS_Rows(sh, sn), LAMBDA r :
    ~IsAbsent(r.absent) /\ Truthy(r.player) /\ IsStr(r.player))

\* keys of player_averages, in insertion order
GLS_PlayerOrder(sh, sn) == PlayerKeys(GLS_PlayerRows(sh, sn))

GLS_RowsOf(sh, sn, player) ==
  SelectSeq(GLS_PlayerRows(sh, sn), LAMBDA r : Strip(r.player.v) = player)

\* player_averages[player]["games"]
GLS_PlayerGames(sh, sn, player) == GamesOf(GLS_RowsOf(sh, sn, player))

\* one entry of player_avg_list: the team is the player's first one
GLS_AvgEntry(player, first, g) ==
  [player |-> player,
   team |-> Strip(first.team.v),
   average |-> PlayerAverage(g),
   games |-> Len(g)]

GLS_AvgOver(sh, sn, order) ==
  [i \in 1..Len(order) |->
     GLS_AvgEntry(order[i], GLS_RowsOf(sh, sn, order[i])[1],
                  GLS_PlayerGames(sh, sn, order[i]))]

\* player_avg_list before sorting: players with at least one game
GLS_AvgList(sh, sn) ==
  GLS_AvgOver(sh, sn, SelectSeq(GLS_PlayerOrder(sh, sn),
                                LAMBDA p : GLS_PlayerGames(sh, sn, p) # <<>>))

\* player_weekly_totals, in scan order
GLS_WeeksOver(rows) ==
  [i \in 1..Len(rows) |->
     [player |-> Strip(rows[i].player.v), team |-> Strip(rows[i].team.v),
      week |-> SafeInt(rows[i].week), total |-> SumSeq(RowGames(rows[i])),
      num_games |-> Len(RowGames(rows[i]))]]

GLS_PlayerWeeks(sh, sn) ==
  GLS_WeeksOver(SelectSeq(GLS_PlayerRows(sh, sn),
                          LAMBDA r : SumSeq(RowGames(r)) > 0))

\* rows feeding team_weekly_totals: absent rows included
GLS_TeamWeekRows(sh, sn) ==
  SelectSeq(GLS_Rows(sh, sn), LAMBDA r :
    ~IsNone(r.week) /\ SafeInt(r.week) > 0 /\ SumSeq(RowGames(r)) > 0)

TeamWeekKey(r) == <<Strip(r.team.v), SafeInt(r.week)>>

GLS_TotalsOver(rows, keys) ==
  [i \in 1..Len(keys) |->
     [team |-> keys[i][1], week |-> keys[i][2],
      total |-> PinsOf(SelectSeq(rows, LAMBDA r : TeamWeekKey(r) = keys[i]))]]

\* team_totals_list before sorting: one entry per (team, week) key
GLS_TeamTotals(sh, sn) ==
  GLS_TotalsOver(GLS_TeamWeekRows(sh, sn),
                 Dedupe([i \in 1..Len(GLS_TeamWeekRows(sh, sn)) |->
                           TeamWeekKey(GLS_TeamWeekRows(sh, sn)[i])]))

\* sort(key=lambda x: x["average"], reverse=True)
SortByAverage(s) == SortDesc(s, [i \in 1..Len(s) |-> s[i].average])

\* sort(key=lambda x: x[3], reverse=True) of the player weeks and
\* sort(key=lambda x: x[2], reverse=True) of the team totals: the total field
SortByTotal(s) == SortDesc(s, [i \in 1..Len(s) |-> s[i].total])

\* sort(key=lambda x: x[3], reverse=True) on the score field
SortByScore(s) == SortDesc(s, [i \in 1..Len(s) |-> s[i].score])

GLS_Result(sh, season, sn) ==
  [kind |-> "league",
   season |-> IF Truthy(season) THEN season.v ELSE SeasonName(sn),
   player_averages |-> SortByAverage(GLS_AvgList(sh, sn)),
   top_player_weeks |->
     Take(SortByTotal(GLS_PlayerWeeks(sh, sn)), TopPlayerWeeksCap),
   top_team_totals |->
     Take(SortByTotal(GLS_TeamTotals(sh, sn)), TopTeamTotalsCap),
   top_games |-> Take(SortByScore(GLS_Games(sh, sn)), TopGamesCap)]

GetLeagueStats(sh, season) ==
  IF ~SeasonFound(season) THEN ErrorResult
  ELSE GLS_Result(sh, season, SeasonNumber(season))

----------------------------------------------------------------------------
(* get_player_scores(player_name, season, week)                            *)

HighestInit == 0

LowestInit == 300

RECURSIVE Gcd(_, _)
Gcd(a, b) == IF b = 0 THEN a ELSE Gcd(b, a % b)

\* the exact quotient a/b as a reduced fraction (b > 0, a >= 0)
Reduced(a, b, g) ==
  IF a = 0 THEN [num |-> 0, den |-> 1] ELSE [num |-> a \div g, den |-> b \div g]

Frac(a, b) == Reduced(a, b, Gcd(a, b))

SeqMax(s) == CHOOSE x \in Range(s) : \A y \in Range(s) : y <= x

SeqMin(s) == CHOOSE x \in Range(s) : \A y \in Range(s) : x <= y

\* round(population standard deviation, 2) in hundredths: the integer h
\* nearest to 100*sqrt(n*sum(x^2) - sum(x)^2)/n; the deviation is at most
\* half the spread of the scores, which bounds the search
Square(x) == x * x

NearestRoot(n, d, top) ==
  CHOOSE h \in 0..top :
     /\ (h = 0 \/ Square(2 * h - 1) * Square(n) <= 40000 * d)
     /\ 40000 * d < Square(2 * h + 1) * Square(n)

StdDev2(scores) ==
  IF Len(scores) <= 1 THEN 0
  ELSE NearestRoot(Len(scores),
                   Len(scores) * SumSeq([i \in 1..Len(scores) |-> Square(scores[i])])
                     - Square(SumSeq(scores)),
                   50 * (SeqMax(scores) - SeqMin(scores)) + 1)

\* rows that reach the player bookkeeping; the substitute cell is not read
GPS_Rows(sh, sn, week) ==
  SelectSeq(sh, LAMBDA r :
    /\ SeasonEq(r.season, sn)
    /\ (IsNone(week) \/ SafeInt(r.week) = week.v)
    /\ Truthy(r.player) /\ IsStr(r.player))

\* keys of player_data, in insertion order
GPS_PlayerOrder(sh, sn, week) == PlayerKeys(GPS_Rows(sh, sn, week))

GPS_RowsOf(sh, sn, week, player) ==
  SelectSeq(GPS_Rows(sh, sn, week), LAMBDA r : Strip(r.player.v) = player)

\* str(row_team).strip() if row_team else "Unknown"
GPS_Team(r) == IF Truthy(r.team) THEN Strip(PyStr(r.team)) ELSE UnknownName

\* GPS_Scores without the absent test
GPS_Scores_KeepAbsent(sh, sn, week, player) ==
  LET rows == GPS_RowsOf(sh, sn, week, player)
  IN Concat([i \in 1..Len(rows) |-> RowGames(rows[i])])

\* player_data[player]["scores"]: games of the rows not flagged absent
GPS_Scores(sh, sn, week, player) ==
  GamesOf(SelectSeq(GPS_RowsOf(sh, sn, week, player),
                    LAMBDA r : ~IsAbsent(r.absent)))

GPS_AbsentCount_Games(sh, sn, week, player) ==
  Len(GamesOf(SelectSeq(GPS_RowsOf(sh, sn, week, player),
                        LAMBDA r : IsAbsent(r.absent))))

\* player_data[player]["absent_count"]
GPS_AbsentCount(sh, sn, week, player) ==
  Len(SelectSeq(GPS_RowsOf(sh, sn, week, player), LAMBDA r : IsAbsent(r.absent)))

\* the running maximum kept in player_data[player]["highest_game"]
RECURSIVE GPS_TrackHighest(_, _)
GPS_TrackHighest(scores, best) ==
  IF scores = <<>> THEN best
  ELSE GPS_TrackHighest(Tail(scores),
                        IF Head(scores) > best THEN Head(scores) ELSE best)

\* the running minimum kept in player_data[player]["lowest_game"]
RECURSIVE GPS_TrackLowest(_, _)
GPS_TrackLowest(scores, best) ==
  IF scores = <<>> THEN best
  ELSE GPS_TrackLowest(Tail(scores),
                       IF Head(scores) < best THEN Head(scores) ELSE best)

\* week_avg: the average cell when set, else the mean of the row's games
GPS_WeekAverage(cell, g) ==
  IF ~IsNone(cell) THEN Frac(SafeFloat(cell), 1)
  ELSE IF g # <<>> THEN Frac(SumSeq(g), Len(g))
  ELSE Frac(0, 1)

\* one entry of player_data[player]["weeks"]
GPS_WeekInfo(r) ==
  [week |-> SafeInt(r.week),
   games |-> RowGames(r),
   average |-> GPS_WeekAverage(r.average, RowGames(r)),
   absent |-> IsAbsent(r.absent)]

\* highest_game and lowest_game: recomputed from the scores when the
\* tracked value is still the initial one
GPS_Highest(scores, high) ==
  IF scores = <<>> THEN 0
  ELSE IF high = HighestInit THEN SeqMax(scores) ELSE high

GPS_Lowest_Tracked(scores, low) ==
  IF scores = <<>> THEN 0 ELSE low

GPS_Lowest(scores, low) ==
  IF scores = <<>> THEN 0
  ELSE IF low = LowestInit THEN SeqMin(scores) ELSE low

GPS_Stats(rows, scores, absent) ==
  [team |-> GPS_Team(rows[1]),
   scores |-> scores,
   average |-> IF scores # <<>> THEN PlayerAverage(scores) ELSE 0,
   std_dev |-> StdDev2(scores),
   weeks_played |-> Len(rows) - absent,
   weeks_absent |-> absent,
   highest_game |-> GPS_Highest(scores, GPS_TrackHighest(scores, HighestInit)),
   lowest_game |-> GPS_Lowest(scores, GPS_TrackLowest(scores, LowestInit))]

\* result_data of a player
GPS_ResultData(sh, sn, week, player) ==
  GPS_Stats(GPS_RowsOf(sh, sn, week, player),
            GPS_Scores(sh, sn, week, player),
            GPS_AbsentCount(sh, sn, week, player))

GPS_WeekView(player, first, w) ==
  [kind |-> "player_week", player |-> player,
   team |-> GPS_Team(first),
   week_data |-> [games |-> w.games, average |-> w.average, absent |-> w.absent]]

\* the view of one named player: the week entry or the season result
GPS_PlayerView(sh, sn, week, player, player_name) ==
  IF ~IsNone(week) /\ Truthy(player_name)
  THEN GPS_WeekView(player, GPS_RowsOf(sh, sn, week, player)[1],
                    GPS_WeekInfo(GPS_RowsOf(sh, sn, week, player)[1]))
  ELSE [kind |-> "player", player |-> player,
        stats |-> GPS_ResultData(sh, sn, week, player)]

GPS_Named_EmptyOnMiss(sh, sn, week, order, i, player_name) ==
  IF i = 0 THEN [kind |-> "players", players |-> <<>>]
  ELSE GPS_PlayerView(sh, sn, week, order[i], player_name)

GPS_Named(sh, sn, week, order, i, player_name) ==
  IF i = 0
  THEN IF Truthy(player_name) THEN ErrorResult
       ELSE [kind |-> "players", players |-> <<>>]
  ELSE GPS_PlayerView(sh, sn, week, order[i], player_name)

GPS_Result(sh, sn, week, order, player_name) ==
  IF IsNone(player_name)
  THEN [kind |-> "players",
        players |-> [p \in Range(order) |-> GPS_ResultData(sh, sn, week, p)]]
  ELSE GPS_Named(sh, sn, week, order, FirstMatch(player_name.v, order),
                 player_name)

GPS_OnSeason(sh, sn, week, player_name) ==
  GPS_Result(sh, sn, week, GPS_PlayerOrder(sh, sn, week), player_name)

\* get_player_scores: player_name and week are cells (None when not given)
GetPlayerScores(sh, player_name, season, week) ==
  IF ~SeasonFound(season) THEN ErrorResult
  ELSE GPS_OnSeason(sh, SeasonNumber(season), week, player_name)

----------------------------------------------------------------------------
(* add_score(player_name, score, week, season)                             *)

\* rows of the player as add_score finds them: the player cell is a string
\* that contains player_name (lower-cased, one direction), season matches
AS_Hits(sh, sn, player_name) ==
  { i \in 1..Len(sh) :
      /\ Truthy(sh[i].player) /\ IsStr(sh[i].player)
      /\ Contains(Lower(sh[i].player.v), Lower(player_name))
      /\ SeasonEq(sh[i].season, sn) }

AS_LatestRow_AnyWeek(sh, hits) ==
  MinOrZero({ i \in hits : \A j \in hits : SafeInt(sh[j].week) <= SafeInt(sh[i].week) })

\* week is None: the first row whose week exceeds every week before it and
\* is not exceeded later (max_week starts at 0); 0 when there is none
AS_LatestRow(sh, hits) ==
  MinOrZero({ i \in hits :
                /\ SafeInt(sh[i].week) > 0
                /\ \A j \in hits : SafeInt(sh[j].week) <= SafeInt(sh[i].week) })

\* week is given: the first row of the player with that week; 0 when none
AS_WeekRow(sh, hits, week) ==
  MinOrZero({ i \in hits : SafeInt(sh[i].week) = week })

AS_TargetRow(sh, hits, week) ==
  IF IsNone(week) THEN AS_LatestRow(sh, hits) ELSE AS_WeekRow(sh, hits, week.v)

\* variant: "not game_value", which also takes a cell holding 0 for empty
AS_IsEmpty_Falsy(cell) == ~Truthy(cell)

\* game_value is None or game_value == ""
AS_IsEmpty(cell) == IsNone(cell) \/ cell = Str(<<>>)

AS_EmptySlot_Last(row) ==
  IF \A k \in Slots : ~AS_IsEmpty(row.games[k]) THEN 0
  ELSE CHOOSE k \in Slots :
         AS_IsEmpty(row.games[k]) /\ \A j \in Slots : AS_IsEmpty(row.games[j]) => j <= k

\* the first empty game column of a row, 0 when all five are occupied
AS_EmptySlot(row) == MinOrZero({ k \in Slots : AS_IsEmpty(row.games[k]) })

\* sheet.cell(row, column, value=score) and the boolean returned
AS_Write(sh, i, k, score) ==
  IF i = 0 \/ k = 0 THEN [ok |-> FALSE, sheet |-> sh]
  ELSE [ok |-> TRUE, sheet |-> [sh EXCEPT ![i].games[k] = Num(score)]]

AS_WriteInto(sh, i, score) ==
  AS_Write(sh, i, IF i = 0 THEN 0 ELSE AS_EmptySlot(sh[i]), score)

\* add_score: the boolean returned and the sheet it leaves
AddScore(sh, player_name, score, week, season) ==
  IF ~SeasonFound(season) THEN [ok |-> FALSE, sheet |-> sh]
  ELSE AS_WriteInto(sh,
         AS_TargetRow(sh, AS_Hits(sh, SeasonNumber(season), player_name), week),
         score)

----------------------------------------------------------------------------
(* BotLogic: the replies built from the handler's results                   *)

\* the reply of _handle_stats for a league result: the four listings, or
\* the message of the except branch when an entry does not unpack into the
\* names of its loop ("for i, (player, team, week, total) in enumerate(...)"
\* raises ValueError for an entry of another length)
HS_Response(data) ==
  IF /\ \A i \in 1..Len(data.top_player_weeks) :
          Cardinality(DOMAIN data.top_player_weeks[i]) = 4
     /\ \A i \in 1..Len(data.top_team_totals) :
          Cardinality(DOMAIN data.top_team_totals[i]) = 3
     /\ \A i \in 1..Len(data.top_games) :
          Cardinality(DOMAIN data.top_games[i]) = 4
  THEN [kind |-> "statistics", season |-> data.season,
        player_averages |-> data.player_averages,
        top_player_weeks |-> data.top_player_weeks,
        top_team_totals |-> data.top_team_totals,
        top_games |-> data.top_games]
  ELSE [kind |-> "failed"]

\* _handle_stats(season)
\* _handle_add_score: the reply and the sheet left, for a player name that
\* is given and a score that is a number
HandleAddScore(sh, player_name, score, week, season) ==
  IF ~(0 <= score /\ score <= 300) THEN [reply |-> "invalid", sheet |-> sh]
  ELSE IF AddScore(sh, player_name, score, week, season).ok
       THEN [reply |-> "added",
             sheet |-> AddScore(sh, player_name, score, week, season).sheet]
       ELSE [reply |-> "not_added", sheet |-> sh]

HandleStats(sh, season) ==
  IF GetLeagueStats(sh, season).kind = "error" THEN [kind |-> "error"]
  ELSE HS_Response(GetLeagueStats(sh, season))

----------------------------------------------------------------------------
(* The sheets and the calls the model explores *)

MaxRows == 2

Red == <<"R","e","d">>

Blue == <<"B","l","u","e">>

Al == <<"A","l">>

Bo == <<"B","o">>

\* game cells of a row: a win and a loss against each other, a row with an
\* unplayed first game and a fifth game, and a recorded 0
GameRows ==
  { <<Num(2), Num(1), None, None, None>>,
    <<Num(1), Num(2), Num(0), None, None>>,
    <<None, Num(2), None, None, Num(1)>> }

\* opponent cells: blank, the other team in lower case, a fragment that
\* matches both team names
OpponentCells == { None, Str(Lower(Red)), Str(Lower(Blue)), Str(<<"e">>) }

MakeRow(team, player, week, games, absent, substitute, opponent) ==
  [team |-> Str(team), player |-> Str(player), season |-> Num(1),
   week |-> Num(week), games |-> games, average |-> None,
   absent |-> absent, substitute |-> substitute, opponent |-> opponent]

Yes == Str(<<"y","e","s">>)

OtherTeam(t) == IF t = Red THEN Blue ELSE Red

\* rows that vary the matchup: in week 1 every team, opponent label and
\* game row; a week-2 row and a substitute row of each team
MatchRows ==
  { MakeRow(t, IF t = Red THEN Al ELSE Bo, 1, g, None, None, o) :
      t \in {Red, Blue}, g \in GameRows, o \in OpponentCells }
  \cup
  { MakeRow(t, IF t = Red THEN Al ELSE Bo, 2,
            <<Num(2), Num(1), None, None, None>>, None, None,
            IF other THEN Str(Lower(OtherTeam(t))) ELSE Str(<<"e">>)) :
      t \in {Red, Blue}, other \in BOOLEAN }
  \cup
  { MakeRow(t, IF t = Red THEN Al ELSE Bo, 1,
            <<Num(2), Num(1), None, None, None>>, None, Bool(TRUE),
            Str(Lower(OtherTeam(t)))) :
      t \in {Red, Blue} }

\* rows that vary the player and the flags: two players of Red in weeks 1
\* and 2 with absent and substitute in every combination, a row of Blue,
\* and rows without a week
FlagRows ==
  { MakeRow(Red, p, w, g, a, sub, Str(Lower(Blue))) :
      p \in {Al, Bo}, w \in {1, 2},
      g \in { <<Num(2), Num(1), None, None, None>>,
              <<None, Num(2), None, None, Num(1)>> },
      a \in {None, Yes}, sub \in {None, Bool(TRUE)} }
  \cup
  { MakeRow(Blue, Bo, 1, g, None, None, Str(Lower(Red))) : g \in GameRows }
  \cup
  { MakeRow(Red, Al, 0, <<Num(1), Num(2), Num(0), None, None>>, a, None,
            Str(Lower(Blue))) : a \in {None, Yes} }

Ali == <<"A","l","i">>

Pins(a, b, c, d, e) == <<a, b, c, d, e>>

\* rows for the writes: players Al and Ali of Red in weeks 3 and 4 with one
\* or two games played, a blank-string slot, an unplayed first slot, a full
\* row, an absent row, a week-0 row, a row of Blue, and a row whose team
\* cell is a number
EditRows ==
  { MakeRow(Red, Al, 3, Pins(Num(151), None, None, None, None),
            None, None, Str(Lower(Blue))),
    MakeRow(Red, Ali, 3, Pins(Num(148), Num(150), None, None, None),
            None, None, Str(Lower(Blue))),
    MakeRow(Red, Al, 4, Pins(Num(149), Str(<<>>), None, None, None),
            None, None, Str(Lower(Blue))),
    MakeRow(Red, Al, 3, Pins(Num(148), Num(149), Num(150), Num(151), Num(149)),
            None, None, Str(Lower(Blue))),
    MakeRow(Red, Ali, 4, Pins(None, Num(150), None, None, None),
            None, None, Str(Lower(Blue))),
    MakeRow(Red, Al, 3, Pins(Num(150), None, None, None, None),
            Yes, None, Str(Lower(Blue))),
    MakeRow(Red, Al, 0, Pins(None, None, None, None, None),
            None, None, None),
    MakeRow(Blue, Bo, 3, Pins(Num(150), None, None, None, None),
            None, None, Str(Lower(Red))),
    [MakeRow(Red, Al, 3, Pins(Num(150), None, None, None, None),
             None, None, None) EXCEPT !.team = Num(7)] }

Sheets(rows) == UNION { [1..n -> rows] : n \in 0..MaxRows }

\* longest sheet of the leaderboard workbooks
MaxLeagueRows == 12

\* row i of a leaderboard workbook: one game a week by one player with
\* rising, falling or equal scores, two teams with two games a row and
\* every third row absent, or one game a week above 300 or around 300
LeagueRow(i, shape) ==
  CASE shape = "rising" ->
         MakeRow(Red, Al, i, Pins(Num(i), None, None, None, None), None, None, None)
    [] shape = "falling" ->
         MakeRow(Red, Al, i, Pins(Num(MaxLeagueRows + 1 - i), None, None, None, None),
                 None, None, None)
    [] shape = "equal" ->
         MakeRow(Red, Al, i, Pins(Num(5), None, None, None, None), None, None, None)
    [] shape = "over" ->
         MakeRow(Red, Al, i, Pins(Num(300 + i), None, None, None, None),
                 IF i % 3 = 0 THEN Yes ELSE None, None, None)
    [] shape = "around" ->
         MakeRow(Red, Al, i, Pins(Num(297 + i), None, None, None, None), None, None, None)
    [] shape = "teams" ->
         MakeRow(IF i % 2 = 1 THEN Red ELSE Blue, IF i % 2 = 1 THEN Al ELSE Bo,
                 (i + 1) \div 2, Pins(Num(i), None, Num(i + 1), None, None),
                 IF i % 3 = 0 THEN Yes ELSE None, None, None)

LeagueSheets ==
  { [i \in 1..n |-> LeagueRow(i, shape)] :
      n \in 0..MaxLeagueRows,
      shape \in {"rising", "falling", "equal", "teams", "over", "around"} }

NoSeason == Str(SeasonName(2))

\* (team_name, season, week) of get_team_scores
TeamScoreArgs ==
  { <<None, None, None>>, <<None, None, Num(1)>>, <<Str(<<"e">>), None, None>>,
    <<Str(Lower(Red)), None, Num(1)>>, <<None, NoSeason, None>> }

\* (team_name, season) of get_team_weekly_summary
SummaryArgs ==
  { <<<<"e">>, None>>, <<Lower(Blue), None>>, <<Lower(Red), NoSeason>> }

\* (season) of get_league_stats
LeagueArgs == { None, NoSeason }

\* (player_name, season, week) of get_player_scores
PlayerScoreArgs ==
  { <<None, None, None>>, <<None, None, Num(1)>>, <<Str(<<"b">>), None, None>>,
    <<Str(<<"l">>), None, Num(1)>>, <<None, NoSeason, None>> }

\* (player_name, score, week, season) of add_score
AddScoreArgs ==
  { <<Lower(Al), 150, None, None>>, <<Lower(Al), 150, Num(3), None>>,
    <<Lower(Ali), 150, None, None>>, <<Lower(Ali), 150, Num(3), None>>,
    <<Lower(Al), 150, Num(3), NoSeason>> }

\* number of writes explored from one workbook
MaxAdds == 1

----------------------------------------------------------------------------
(* State machine: the workbook loaded at construction, then any calls *)

NoCall == [op |-> "none"]

InitOn(rows) ==
  /\ sheet \in Sheets(rows)
  /\ ret = NoCall
  /\ adds = 0

Init == InitOn(MatchRows)

InitFlags == InitOn(FlagRows)

CallGetTeamScores ==
  \E a \in TeamScoreArgs :
    /\ ret' = [op |-> "get_team_scores", team_name |-> a[1], season |-> a[2],
               week |-> a[3], val |-> GetTeamScores(sheet, a[1], a[2], a[3])]
    /\ UNCHANGED <<sheet, adds>>

CallGetTeamWeeklySummary ==
  \E a \in SummaryArgs :
    /\ ret' = [op |-> "get_team_weekly_summary", team_name |-> a[1],
               season |-> a[2], val |-> GetTeamWeeklySummary(sheet, a[1], a[2])]
    /\ UNCHANGED <<sheet, adds>>

CallGetLeagueStats_DropsRow ==
  \E a \in LeagueArgs :
    /\ ret' = [op |-> "get_league_stats", season |-> a,
               val |-> GetLeagueStats(sheet, a)]
    /\ sheet' = SubSeq(sheet, 1, Len(sheet) - 1)
    /\ UNCHANGED adds

CallGetLeagueStats ==
  \E a \in LeagueArgs :
    /\ ret' = [op |-> "get_league_stats", season |-> a,
               val |-> GetLeagueStats(sheet, a)]
    /\ UNCHANGED <<sheet, adds>>

CallGetPlayerScores ==
  \E a \in PlayerScoreArgs :
    /\ ret' = [op |-> "get_player_scores", player_name |-> a[1], season |-> a[2],
               week |-> a[3], val |-> GetPlayerScores(sheet, a[1], a[2], a[3])]
    /\ UNCHANGED <<sheet, adds>>

Next ==
  \/ CallGetTeamScores
  \/ CallGetTeamWeeklySummary
  \/ CallGetLeagueStats
  \/ CallGetPlayerScores

Spec == Init /\ [][Next]_vars

InitEdit == InitOn(EditRows)

InitLeague ==
  /\ sheet \in LeagueSheets
  /\ ret = NoCall
  /\ adds = 0

\* handle_command for a STATS command
CallHandleStats ==
  \E a \in LeagueArgs :
    /\ ret' = [op |-> "handle_stats", season |-> a, val |-> HandleStats(sheet, a)]
    /\ UNCHANGED <<sheet, adds>>

NextLeague ==
  \/ Next
  \/ CallHandleStats

SpecLeague == InitLeague /\ [][NextLeague]_vars

CallAddScore ==
  /\ adds < MaxAdds
  /\ \E a \in AddScoreArgs :
       /\ ret' = [op |-> "add_score", player_name |-> a[1], score |-> a[2],
                  week |-> a[3], season |-> a[4],
                  val |-> AddScore(sheet, a[1], a[2], a[3], a[4]).ok]
       /\ sheet' = AddScore(sheet, a[1], a[2], a[3], a[4]).sheet
  /\ adds' = adds + 1

\* the reads and the write
NextEdit ==
  \/ Next
  \/ CallAddScore

SpecEdit == InitEdit /\ [][NextEdit]_vars

----------------------------------------------------------------------------
(* Workbooks and calls for series of writes *)

\* longest sheet of the workbooks written to repeatedly
MaxSeriesRows == 2

\* number of ADD_SCORE commands explored from one workbook
MaxSeries == 4

\* rows of week 3 and week 4 with three, four and two occupied game cells
SeriesRows ==
  { MakeRow(Red, Al, 3, Pins(Num(151), Num(150), Num(149), None, Str(<<>>)),
            None, None, None),
    MakeRow(Red, Al, 4, Pins(Num(148), Num(150), Num(149), Num(151), None),
            None, None, None),
    MakeRow(Red, Ali, 4, Pins(Num(152), None, Num(150), None, Num(149)),
            None, None, None) }

\* (player_name, score, week, season) of the ADD_SCORE command
SeriesArgs ==
  { <<Lower(Al), 150, None, None>>, <<Lower(Al), 0, None, None>>,
    <<Lower(Al), 150, Num(3), None>>, <<Lower(Ali), 0, Num(4), None>>,
    <<Lower(Ali), 301, None, None>> }

InitSeries ==
  /\ sheet \in UNION { [1..n -> SeriesRows] : n \in 0..MaxSeriesRows }
  /\ ret = NoCall
  /\ adds = 0

\* handle_command for an ADD_SCORE command
CallHandleAddScore ==
  /\ adds < MaxSeries
  /\ \E a \in SeriesArgs :
       /\ ret' = [op |-> "handle_add_score", player_name |-> a[1],
                  score |-> a[2], week |-> a[3], season |-> a[4],
                  val |-> HandleAddScore(sheet, a[1], a[2], a[3], a[4]).reply]
       /\ sheet' = HandleAddScore(sheet, a[1], a[2], a[3], a[4]).sheet
  /\ adds' = adds + 1

NextSeries == CallHandleAddScore

SpecSeries == InitSeries /\ [][NextSeries]_vars

----------------------------------------------------------------------------
(* Workbooks and calls for the resolution of names *)

\* longest sheet of the workbooks with similar names
MaxNameRows == 3

Reds == <<"R","e","d","s">>

\* rows of two players and two teams whose names contain one another, in
\* weeks 3 and 4, a row of a third team, and a row labelled like the
\* header line
NameRows ==
  { MakeRow(Reds, Ali, 4, Pins(Num(150), None, None, None, None), None, None, None),
    MakeRow(Red, Al, 3, Pins(Num(151), None, None, None, None), None, None, None),
    MakeRow(Reds, Ali, 3, Pins(Num(152), None, None, None, None), None, None, None),
    MakeRow(Blue, Bo, 3, Pins(Num(149), None, None, None, None), None, None, None),
    MakeRow(<<"T","e","a","m">>, <<"P","l","a","y","e","r">>, 3,
            Pins(Num(150), None, None, None, None), None, None, None) }

InitNames ==
  /\ sheet \in UNION { [1..n -> NameRows] : n \in 0..MaxNameRows }
  /\ ret = NoCall
  /\ adds = 0

\* (team_name, season, week) of get_team_scores
TeamNameArgs ==
  { <<Str(Lower(Red)), None, None>>, <<Str(Lower(Red)), None, Num(3)>>,
    <<Str(Lower(Reds)), None, Num(3)>>, <<None, None, None>> }

\* (team_name, season) of get_team_weekly_summary
SummaryNameArgs == { <<Lower(Red), None>>, <<Lower(Reds), None>> }

\* (player_name, season, week) of get_player_scores
PlayerNameArgs ==
  { <<Str(Lower(Al)), None, None>>, <<Str(Lower(Al)), None, Num(3)>>,
    <<Str(Lower(Ali)), None, Num(3)>>, <<None, None, None>> }

TeamScoresByName ==
  \E a \in TeamNameArgs :
    /\ ret' = [op |-> "get_team_scores", team_name |-> a[1], season |-> a[2],
               week |-> a[3], val |-> GetTeamScores(sheet, a[1], a[2], a[3])]
    /\ UNCHANGED <<sheet, adds>>

SummaryByName ==
  \E a \in SummaryNameArgs :
    /\ ret' = [op |-> "get_team_weekly_summary", team_name |-> a[1],
               season |-> a[2], val |-> GetTeamWeeklySummary(sheet, a[1], a[2])]
    /\ UNCHANGED <<sheet, adds>>

PlayerScoresByName ==
  \E a \in PlayerNameArgs :
    /\ ret' = [op |-> "get_player_scores", player_name |-> a[1], season |-> a[2],
               week |-> a[3], val |-> GetPlayerScores(sheet, a[1], a[2], a[3])]
    /\ UNCHANGED <<sheet, adds>>

NextNames ==
  \/ TeamScoresByName
  \/ SummaryByName
  \/ PlayerScoresByName

SpecNames == InitNames /\ [][NextNames]_vars

SpecFlags == InitFlags /\ [][Next]_vars

----------------------------------------------------------------------------
(* Vocabulary of the properties: the statistics as the specification words  *)
(* them, computed over the set of rows of a sheet                          *)

TheSeason == CHOOSE n \in SeasonNums : TRUE

\* a game cell counts as played iff its numeric interpretation is > 0
PlayedValue(c) == IF SafeFloat(c) > 0 THEN SafeFloat(c) ELSE 0

FlaggedSubstitute(r) == IsSubstitute(r.substitute)

FlaggedAbsent(r) == IsAbsent(r.absent)

\* the record set with every substitute-flagged row removed
WithoutSubstitutes(sh) == SelectSeq(sh, LAMBDA r : ~FlaggedSubstitute(r))

\* the non-substitute rows of a team in a week, as row numbers
TeamWeekRows(sh, team, w) ==
  { i \in 1..Len(sh) :
      /\ SeasonEq(sh[i].season, TheSeason)
      /\ IsStr(sh[i].team) /\ Strip(sh[i].team.v) = team
      /\ SafeInt(sh[i].week) = w
      /\ ~FlaggedSubstitute(sh[i]) }

\* perSlotTotals[k] of a team-week
SlotTotal(sh, team, w, k) ==
  LET I == TeamWeekRows(sh, team, w)
  IN SumOver(I, [i \in I |-> PlayedValue(sh[i].games[k])])

SlotTotals(sh, team, w) == [k \in Slots |-> SlotTotal(sh, team, w, k)]

\* the opponent a week entry of the last call was resolved to by that call
\* (<<>> when it was not resolved)
ResolvedBySummary(team, w) == GTWS_OppFound(sheet, TheSeason, team, w)

ScoreRows == GTS_Rows(sheet, TheSeason, ret.week)

ResolvedByScores(team, w) ==
  LET label == GTS_WeekOpponent(ScoreRows, team, w)
  IN IF Truthy(label) THEN GTS_OppFound(TeamKeys(ScoreRows), label).team
     ELSE <<>>

SummaryReturned ==
  ret.op = "get_team_weekly_summary" /\ ret.val.kind = "summary"

\* get_team_scores returned the table of all teams
TeamsReturned == ret.op = "get_team_scores" /\ ret.val.kind = "teams"

\* ... for one week only (the week argument was given)
TeamsOfWeekReturned == TeamsReturned /\ ~IsNone(ret.week)

\* the outcome the slot comparison rule gives a team against an opponent
RuleHolds(info, own, their) ==
  /\ info.wins = Cardinality({ k \in Slots : own[k] > their[k] })
  /\ info.losses = Cardinality({ k \in Slots : own[k] < their[k] })
  /\ info.ties = Cardinality({ k \in Slots : own[k] = their[k] /\ own[k] > 0 })
  /\ info.wins + info.losses + info.ties
       = Cardinality({ k \in Slots : own[k] > 0 \/ their[k] > 0 })

----------------------------------------------------------------------------
(* C1 *)

\* C1: for every team-week whose opponent label resolves to a team, wins,
\* losses and ties are decided slot by slot on the two teams' per-slot totals
\* of non-substitute rows, and wins + losses + ties is the number of slots
\* where at least one side's total is > 0 -- in the weekly summary and in
\* the one-week table of get_team_scores.
C1_SlotRule ==
  /\ SummaryReturned =>
       \A w \in DOMAIN ret.val.weekly_summary :
         LET opp == ResolvedBySummary(ret.val.team, w)
         IN opp # <<>> =>
              RuleHolds(ret.val.weekly_summary[w],
                        SlotTotals(sheet, ret.val.team, w),
                        SlotTotals(sheet, opp, w))
  /\ TeamsOfWeekReturned =>
       \A t \in DOMAIN ret.val.teams :
         (ret.week.v \in GTS_Weeks(ScoreRows, t)
            /\ ResolvedByScores(t, ret.week.v) # <<>>) =>
              RuleHolds(ret.val.teams[t],
                        SlotTotals(sheet, t, ret.week.v),
                        SlotTotals(sheet, ResolvedByScores(t, ret.week.v), ret.week.v))

----------------------------------------------------------------------------
(* C2 *)

\* week entry of a team as get_team_weekly_summary reports it
SummaryEntry(team, w) == GTWS_WeekInfo(sheet, TheSeason, team, w)

SummaryHasWeek(team, w) == w \in GTWS_Weeks(sheet, TheSeason, team)

ScoresHasWeek(team, w) == w \in GTS_Weeks(ScoreRows, team)

\* C2 as claimed: whenever A's opponent label of week w resolves to team B
\* (and B has a week-w entry to report), A's wins equal B's losses and A's
\* ties equal B's ties.
C2_Claimed ==
  /\ SummaryReturned =>
       \A w \in DOMAIN ret.val.weekly_summary :
         LET B == ResolvedBySummary(ret.val.team, w)
         IN (B # <<>> /\ SummaryHasWeek(B, w)) =>
              /\ ret.val.weekly_summary[w].wins = SummaryEntry(B, w).losses
              /\ ret.val.weekly_summary[w].ties = SummaryEntry(B, w).ties
  /\ TeamsOfWeekReturned =>
       \A A \in DOMAIN ret.val.teams :
         LET w == ret.week.v
             B == IF ScoresHasWeek(A, w) THEN ResolvedByScores(A, w) ELSE <<>>
         IN (B # <<>> /\ ScoresHasWeek(B, w)) =>
              /\ ret.val.teams[A].wins = ret.val.teams[B].losses
              /\ ret.val.teams[A].ties = ret.val.teams[B].ties

\* C2 amended: whenever A's opponent label of week w resolves to team B and
\* B's opponent label of week w resolves to A, A's wins equal B's losses and
\* A's ties equal B's ties -- per week in the weekly summary and in the
\* one-week table of get_team_scores, and accumulated over a season in
\* which the two teams name each other every week.
C2_Symmetry ==
  /\ SummaryReturned =>
       \A w \in DOMAIN ret.val.weekly_summary :
         LET A == ret.val.team
             B == ResolvedBySummary(A, w)
         IN (B # <<>> /\ SummaryHasWeek(B, w) /\ ResolvedBySummary(B, w) = A) =>
              /\ ret.val.weekly_summary[w].wins = SummaryEntry(B, w).losses
              /\ ret.val.weekly_summary[w].ties = SummaryEntry(B, w).ties
  /\ TeamsOfWeekReturned =>
       \A A \in DOMAIN ret.val.teams :
         LET w == ret.week.v
             B == IF ScoresHasWeek(A, w) THEN ResolvedByScores(A, w) ELSE <<>>
         IN (B # <<>> /\ ScoresHasWeek(B, w) /\ ResolvedByScores(B, w) = A) =>
              /\ ret.val.teams[A].wins = ret.val.teams[B].losses
              /\ ret.val.teams[A].ties = ret.val.teams[B].ties
  /\ (TeamsReturned /\ IsNone(ret.week)) =>
       \A A, B \in DOMAIN ret.val.teams :
         (/\ GTS_Weeks(ScoreRows, A) = GTS_Weeks(ScoreRows, B)
          /\ \A w \in GTS_Weeks(ScoreRows, A) :
                ResolvedByScores(A, w) = B /\ ResolvedByScores(B, w) = A) =>
              /\ ret.val.teams[A].wins = ret.val.teams[B].losses
              /\ ret.val.teams[A].ties = ret.val.teams[B].ties

\* two different teams that name each other, with a game won
C2_Witness ==
  /\ SummaryReturned
  /\ \E w \in DOMAIN ret.val.weekly_summary :
       LET A == ret.val.team
           B == ResolvedBySummary(A, w)
       IN /\ B # <<>> /\ B # A /\ SummaryHasWeek(B, w)
          /\ ResolvedBySummary(B, w) = A
          /\ ret.val.weekly_summary[w].wins > 0
          /\ ret.val.weekly_summary[w].losses > 0

----------------------------------------------------------------------------
(* C3 *)

\* no week entry of the team has an opponent label that matches a team
AllWeeksUnresolved(team) ==
  \A w \in GTS_Weeks(ScoreRows, team) : ResolvedByScores(team, w) = <<>>

\* C3: in get_team_scores a team-week whose opponent label matches no team
\* adds nothing to wins, losses or ties, while its pins count in pins_for.
C3_Claimed ==
  TeamsReturned =>
    \A t \in DOMAIN ret.val.teams :
      AllWeeksUnresolved(t) =>
        /\ ret.val.teams[t].wins = 0
        /\ ret.val.teams[t].losses = 0
        /\ ret.val.teams[t].ties = 0
        /\ ret.val.teams[t].pins_for
             = SumOver(GTS_Weeks(ScoreRows, t),
                       [w \in GTS_Weeks(ScoreRows, t) |->
                          SumSlots(SlotTotals(sheet, t, w))])

----------------------------------------------------------------------------
(* C4, C5, C6 *)

\* C4: get_player_scores returns what it returns on the record set with
\* every substitute-flagged row removed.
C4_Claimed ==
  ret.op = "get_player_scores" =>
    ret.val = GetPlayerScores(WithoutSubstitutes(sheet), ret.player_name,
                              ret.season, ret.week)

\* C5: get_team_scores returns what it returns on the record set with
\* every substitute-flagged row removed.
C5_Claimed ==
  ret.op = "get_team_scores" =>
    ret.val = GetTeamScores(WithoutSubstitutes(sheet), ret.team_name,
                            ret.season, ret.week)

\* C6: get_league_stats returns what it returns on the record set with
\* every substitute-flagged row removed.
C6_LeagueIgnoresSubstitutes ==
  ret.op = "get_league_stats" =>
    ret.val = GetLeagueStats(WithoutSubstitutes(sheet), ret.season)

\* league statistics of a sheet that holds a substitute row with games,
\* next to a row that is listed
C6_Witness ==
  /\ ret.op = "get_league_stats" /\ ret.val.kind = "league"
  /\ \E i \in 1..Len(sheet) :
       FlaggedSubstitute(sheet[i]) /\ RowGames(sheet[i]) # <<>>
  /\ ret.val.top_games # <<>>
  /\ ret.val.player_averages # <<>>

----------------------------------------------------------------------------
(* C7 *)

PlayedGames(r) ==
  SelectSeq([k \in Slots |-> PlayedValue(r.games[k])], LAMBDA x : x > 0)

\* row of the player that the call reads (season, week argument)
RowOfPlayer(r, p, week) ==
  /\ SeasonEq(r.season, TheSeason)
  /\ IsNone(week) \/ SafeInt(r.week) = week.v
  /\ IsStr(r.player) /\ Strip(r.player.v) = p

\* the played game values of the player's rows not flagged absent, in order
RECURSIVE IncludedGames(_, _, _)
IncludedGames(sh, p, week) ==
  IF sh = <<>> THEN <<>>
  ELSE (IF RowOfPlayer(Head(sh), p, week) /\ ~FlaggedAbsent(Head(sh))
        THEN PlayedGames(Head(sh)) ELSE <<>>)
       \o IncludedGames(Tail(sh), p, week)

\* avg (hundredths) is total/count to two decimals
IsAverageOf(avg, games) ==
  LET d == avg * Len(games) - 100 * SumSeq(games)
  IN 2 * d <= Len(games) /\ 2 * (0 - d) <= Len(games)

PlayersReturned == ret.op = "get_player_scores" /\ ret.val.kind = "players"

PlayerReturned == ret.op = "get_player_scores" /\ ret.val.kind = "player"

\* C7: scores are exactly the played game values of the player's rows that
\* are not flagged absent, and with at least one of them the average is
\* sum(scores)/count(scores).
C7_AverageOverIncluded ==
  /\ PlayersReturned =>
       \A p \in DOMAIN ret.val.players :
         LET inc == IncludedGames(sheet, p, ret.week)
         IN /\ ret.val.players[p].scores = inc
            /\ inc # <<>> => IsAverageOf(ret.val.players[p].average, inc)
  /\ PlayerReturned =>
       LET inc == IncludedGames(sheet, ret.val.player, ret.week)
       IN /\ ret.val.stats.scores = inc
          /\ inc # <<>> => IsAverageOf(ret.val.stats.average, inc)

\* a player with included games who also has an absent row with games
C7_Witness ==
  /\ PlayersReturned
  /\ \E p \in DOMAIN ret.val.players :
       /\ ret.val.players[p].scores # <<>>
       /\ \E i \in 1..Len(sheet) :
            /\ RowOfPlayer(sheet[i], p, ret.week)
            /\ FlaggedAbsent(sheet[i]) /\ PlayedGames(sheet[i]) # <<>>

----------------------------------------------------------------------------
(* C8 *)

AbsentRowsOf(sh, p, week) ==
  { i \in 1..Len(sh) : RowOfPlayer(sh[i], p, week) /\ FlaggedAbsent(sh[i]) }

\* weeks (> 0) in which the team has a non-substitute row
TeamWeeks(sh, team) ==
  { w \in { SafeInt(sh[i].week) : i \in 1..Len(sh) } :
      w > 0 /\ TeamWeekRows(sh, team, w) # {} }

\* C8: the games of an absent-flagged row are left out of the player's
\* scores and average and the row counts one week in weeks_absent, but they
\* are in the team's per-slot totals and pins_for of that week.
C8_AbsentRows ==
  /\ PlayersReturned =>
       \A p \in DOMAIN ret.val.players :
         /\ ret.val.players[p].scores = IncludedGames(sheet, p, ret.week)
         /\ ret.val.players[p].weeks_absent
              = Cardinality(AbsentRowsOf(sheet, p, ret.week))
  /\ SummaryReturned =>
       \A w \in DOMAIN ret.val.weekly_summary :
         /\ ret.val.weekly_summary[w].game_totals
              = SlotTotals(sheet, ret.val.team, w)
         /\ ret.val.weekly_summary[w].pins_for
              = SumSlots(SlotTotals(sheet, ret.val.team, w))
  /\ (TeamsReturned /\ IsNone(ret.week)) =>
       \A t \in DOMAIN ret.val.teams :
         ret.val.teams[t].pins_for
           = SumOver(TeamWeeks(sheet, t),
                     [w \in TeamWeeks(sheet, t) |->
                        SumSlots(SlotTotals(sheet, t, w))])

\* a weekly summary of a team-week that holds an absent row with games
C8_Witness ==
  /\ SummaryReturned
  /\ \E w \in DOMAIN ret.val.weekly_summary :
       /\ \E i \in TeamWeekRows(sheet, ret.val.team, w) :
            FlaggedAbsent(sheet[i]) /\ PlayedGames(sheet[i]) # <<>>
       /\ ret.val.weekly_summary[w].pins_for > 0

----------------------------------------------------------------------------
(* C9 *)

\* the per-slot totals get_team_scores compares, summed over the five slots
WeekSlotSum(team, w) == SumSlots(GTS_SlotTotals(sheet, TheSeason, team, w))

\* weeks of the team that the call reads
CalledWeeks(team) ==
  { w \in TeamWeeks(sheet, team) : IsNone(ret.week) \/ w = ret.week.v }

\* C9: pins_for of get_team_scores is the sum over the team's weeks of the
\* sum of the week's five per-slot totals, however many players contributed.
C9_PinsForIsSlotSum ==
  /\ TeamsReturned =>
       \A t \in DOMAIN ret.val.teams :
         ret.val.teams[t].pins_for
           = SumOver(CalledWeeks(t), [w \in CalledWeeks(t) |-> WeekSlotSum(t, w)])
  /\ (ret.op = "get_team_scores" /\ ret.val.kind = "team") =>
       ret.val.stats.pins_for
         = SumOver(CalledWeeks(ret.val.team),
                   [w \in CalledWeeks(ret.val.team) |-> WeekSlotSum(ret.val.team, w)])

\* two players' rows with games in the same team-week
C9_Witness ==
  /\ TeamsReturned
  /\ \E t \in DOMAIN ret.val.teams :
       /\ ret.val.teams[t].pins_for > 0
       /\ \E w \in CalledWeeks(t) :
            \E i, j \in TeamWeekRows(sheet, t, w) :
              /\ sheet[i].player # sheet[j].player
              /\ PlayedGames(sheet[i]) # <<>> /\ PlayedGames(sheet[j]) # <<>>

----------------------------------------------------------------------------
(* C10 *)

\* pins against a team in a week: the per-slot totals of the opponent the
\* label was resolved to, 0 when it was not resolved
PinsAgainst(opp, w) ==
  IF opp = <<>> THEN 0 ELSE SumSlots(SlotTotals(sheet, opp, w))

\* C10: weekly pins_against is the sum of the resolved opponent's five
\* per-slot totals of the same week, 0 when the opponent is unresolved or
\* has no rows that week; pins_against of get_team_scores is the sum of the
\* weekly values.
C10_PinsAgainst ==
  /\ SummaryReturned =>
       \A w \in DOMAIN ret.val.weekly_summary :
         ret.val.weekly_summary[w].pins_against
           = PinsAgainst(ResolvedBySummary(ret.val.team, w), w)
  /\ TeamsReturned =>
       \A t \in DOMAIN ret.val.teams :
         ret.val.teams[t].pins_against
           = SumOver(GTS_Weeks(ScoreRows, t),
                     [w \in GTS_Weeks(ScoreRows, t) |->
                        PinsAgainst(ResolvedByScores(t, w), w)])

\* a season table where a team's two weeks both have pins against it
C10_Witness ==
  /\ TeamsReturned /\ IsNone(ret.week)
  /\ \E t \in DOMAIN ret.val.teams :
       /\ Cardinality(GTS_Weeks(ScoreRows, t)) = 2
       /\ \A w \in GTS_Weeks(ScoreRows, t) :
            PinsAgainst(ResolvedByScores(t, w), w) > 0
       /\ ret.val.teams[t].pins_against > 0

----------------------------------------------------------------------------
(* C11 *)

\* row of player p with team t that counts for the team average
RowOfRoster(r, t, p, week) ==
  /\ RowOfPlayer(r, p, week)
  /\ IsStr(r.team) /\ Strip(r.team.v) = t
  /\ ~FlaggedSubstitute(r) /\ ~FlaggedAbsent(r)

\* the played games of p with team t, in row order
RECURSIVE RosterGames(_, _, _, _)
RosterGames(sh, t, p, week) ==
  IF sh = <<>> THEN <<>>
  ELSE (IF RowOfRoster(Head(sh), t, p, week) THEN PlayedGames(Head(sh)) ELSE <<>>)
       \o RosterGames(Tail(sh), t, p, week)

\* the players of team t who have an average
Roster(sh, t, week) ==
  { p \in { Strip(sh[i].player.v) : i \in { j \in 1..Len(sh) : IsStr(sh[j].player) } } :
      RosterGames(sh, t, p, week) # <<>> }

RECURSIVE ProdOver(_, _)
ProdOver(S, f) ==
  IF S = {} THEN 1
  ELSE LET x == CHOOSE y \in S : TRUE IN f[x] * ProdOver(S \ {x}, f)

\* avg (hundredths) is the mean over S of tot[p]/cnt[p], to two decimals;
\* 0 when S is empty
IsMeanOfAverages(avg, S, tot, cnt) ==
  IF S = {} THEN avg = 0
  ELSE LET den == ProdOver(S, cnt) * Cardinality(S)
           num == SumOver(S, [p \in S |-> tot[p] * (ProdOver(S, cnt) \div cnt[p])])
           d == avg * den - 100 * num
       IN 2 * d <= den /\ 2 * (0 - d) <= den

TeamAverageIsMean(t, stats) ==
  LET S == Roster(sheet, t, ret.week)
  IN IsMeanOfAverages(stats.avg_per_game, S,
                      [p \in S |-> SumSeq(RosterGames(sheet, t, p, ret.week))],
                      [p \in S |-> Len(RosterGames(sheet, t, p, ret.week))])

TeamReturned == ret.op = "get_team_scores" /\ ret.val.kind = "team"

\* C11: avg_per_game of a team is the arithmetic mean of the averages of
\* the team's non-substitute players, each average taken over the player's
\* played games in the rows not flagged absent (0 when no player has one).
C11_MeanOfPlayerAverages ==
  /\ TeamsReturned =>
       \A t \in DOMAIN ret.val.teams : TeamAverageIsMean(t, ret.val.teams[t])
  /\ TeamReturned => TeamAverageIsMean(ret.val.team, ret.val.stats)

\* a team whose two players bowled different numbers of games, where the
\* mean of the averages is not the pins over the games
C11_Witness ==
  /\ TeamsReturned /\ IsNone(ret.week)
  /\ \E t \in DOMAIN ret.val.teams :
       LET S == Roster(sheet, t, None)
           games == [p \in S |-> RosterGames(sheet, t, p, None)]
       IN /\ \E p, q \in S : Len(games[p]) # Len(games[q])
          /\ ~IsAverageOf(ret.val.teams[t].avg_per_game,
                          Concat([i \in 1..Len(sheet) |->
                                    IF \E p \in S : RowOfRoster(sheet[i], t, p, None)
                                    THEN PlayedGames(sheet[i]) ELSE <<>>]))

----------------------------------------------------------------------------
(* C12 *)

\* rows of the season that the leaderboards read
LeagueRowOf(r) ==
  /\ SeasonEq(r.season, TheSeason)
  /\ Truthy(r.team) /\ IsStr(r.team)
  /\ ~FlaggedSubstitute(r)

\* candidate games: the played game cells of the leaderboard rows
CandidateGames ==
  { <<i, k>> \in (1..Len(sheet)) \X Slots :
      LeagueRowOf(sheet[i]) /\ PlayedValue(sheet[i].games[k]) > 0 }

\* candidate player-weeks: the rows of a present, named player with pins
CandidatePlayerWeeks ==
  { i \in 1..Len(sheet) :
      /\ LeagueRowOf(sheet[i]) /\ ~FlaggedAbsent(sheet[i])
      /\ Truthy(sheet[i].player) /\ IsStr(sheet[i].player)
      /\ SumSeq(PlayedGames(sheet[i])) > 0 }

\* rows that add to a team-week total
TeamWeekRow(i) ==
  /\ LeagueRowOf(sheet[i]) /\ ~IsNone(sheet[i].week)
  /\ SafeInt(sheet[i].week) > 0 /\ SumSeq(PlayedGames(sheet[i])) > 0

\* candidate team-weeks: the (team, week) pairs with such a row
CandidateTeamWeeks ==
  { <<Strip(sheet[i].team.v), SafeInt(sheet[i].week)>> :
      i \in { j \in 1..Len(sheet) : TeamWeekRow(j) } }

TeamWeekTotal(key) ==
  LET I == { i \in 1..Len(sheet) :
               TeamWeekRow(i)
               /\ <<Strip(sheet[i].team.v), SafeInt(sheet[i].week)>> = key }
  IN SumOver(I, [i \in I |-> SumSeq(PlayedGames(sheet[i]))])

\* a list of values is the top `cap` of the candidates' values: as long as
\* the cap or the candidates allow, in non-increasing order, made of
\* candidate values, and nothing left out exceeds the last value kept
IsTopOf(list, cap, cands, value(_)) ==
  /\ Len(list) = (IF Cardinality(cands) < cap THEN Cardinality(cands) ELSE cap)
  /\ \A i \in 1..(Len(list) - 1) : list[i] >= list[i + 1]
  /\ \A v \in Range(list) \cup { value(c) : c \in cands } :
       LET kept == Cardinality({ i \in 1..Len(list) : list[i] = v })
           have == Cardinality({ c \in cands : value(c) = v })
       IN /\ kept <= have
          /\ (kept < have /\ list # <<>>) => v <= list[Len(list)]

LeagueReturned == ret.op = "get_league_stats" /\ ret.val.kind = "league"

\* C12: get_league_stats returns top_games of length min(10, candidate
\* games), top_player_weeks of length min(10, candidate player-weeks) and
\* top_team_totals of length min(5, candidate team-weeks), each in
\* non-increasing order of score/total, and every candidate left out has a
\* score/total no greater than the last one kept.
C12_LeaderboardCaps ==
  LeagueReturned =>
    /\ IsTopOf([i \in 1..Len(ret.val.top_games) |-> ret.val.top_games[i].score],
               10, CandidateGames,
               LAMBDA c : PlayedValue(sheet[c[1]].games[c[2]]))
    /\ IsTopOf([i \in 1..Len(ret.val.top_player_weeks) |->
                  ret.val.top_player_weeks[i].total],
               10, CandidatePlayerWeeks,
               LAMBDA i : SumSeq(PlayedGames(sheet[i])))
    /\ IsTopOf([i \in 1..Len(ret.val.top_team_totals) |->
                  ret.val.top_team_totals[i].total],
               5, CandidateTeamWeeks, TeamWeekTotal)

\* more candidates than every cap allows, and a candidate score left out
C12_Witness ==
  /\ LeagueReturned
  /\ Cardinality(CandidateGames) > 10
  /\ Cardinality(CandidatePlayerWeeks) > 10
  /\ Cardinality(CandidateTeamWeeks) > 5
  /\ Len(ret.val.top_games) = 10
  /\ Len(ret.val.top_team_totals) = 5
  /\ \E c \in CandidateGames :
       PlayedValue(sheet[c[1]].games[c[2]]) < ret.val.top_games[10].score

----------------------------------------------------------------------------
(* C13 *)

\* a game cell that holds nothing
BlankCell(c) == c = None \/ c = Str(<<>>)

\* the step is a call of add_score
AddScoreStep == adds' # adds /\ ret'.op = "add_score"

\* the only difference between two sheets is the score in slot k of row i
OnlyWritten(sh, sh2, i, k, score) == sh2 = [sh EXCEPT ![i].games[k] = Num(score)]

\* re-querying the player's week after the write shows the score, which went
\* into the first blank slot of a row of that player and week
RoundTrip(sh, sh2, player_name, w, score) ==
  LET q == GetPlayerScores(sh2, Str(player_name), None, Num(w))
  IN /\ q.kind = "player_week"
     /\ score \in Range(q.week_data.games)
     /\ \E i \in 1..Len(sh), k \in Slots :
          /\ IsStr(sh[i].player) /\ Strip(sh[i].player.v) = q.player
          /\ SafeInt(sh[i].week) = w
          /\ BlankCell(sh[i].games[k])
          /\ \A j \in 1..(k - 1) : ~BlankCell(sh[i].games[j])
          /\ OnlyWritten(sh, sh2, i, k, score)

\* C13: after add_score(player, 150, week=3) returns True,
\* get_player_scores(player, week=3) includes 150, written into the first
\* previously-empty slot of that player's week-3 row, and no other slot of
\* any row has changed.
C13_Claimed ==
  [][(AddScoreStep /\ ret'.week = Num(3) /\ ret'.score = 150 /\ ret'.val)
       => RoundTrip(sheet, sheet', ret'.player_name, 3, 150)]_vars

----------------------------------------------------------------------------
(* C14 *)

\* rows of the season whose player cell contains the name and, when a week
\* is given, whose week is that week
RowsMatching(sh, player_name, week) ==
  { i \in 1..Len(sh) :
      /\ SeasonEq(sh[i].season, TheSeason)
      /\ IsStr(sh[i].player)
      /\ Contains(Lower(sh[i].player.v), Lower(player_name))
      /\ (IsNone(week) \/ SafeInt(sh[i].week) = week.v) }

\* the first of the rows with the highest week number
FirstOfHighestWeek(sh, rows) ==
  MinOf({ i \in rows : \A j \in rows : SafeInt(sh[j].week) <= SafeInt(sh[i].week) })

AllOccupied(row) == \A k \in Slots : ~BlankCell(row.games[k])

\* C14: add_score returns False exactly when the season does not exist, no
\* row matches the player (and week, if given), or all 5 game slots of the
\* target row are occupied; and when it returns False no cell has changed.
C14_Claimed ==
  [][AddScoreStep =>
       LET rows == RowsMatching(sheet, ret'.player_name, ret'.week)
       IN /\ ~ret'.val <=>
               \/ ~SeasonFound(ret'.season)
               \/ rows = {}
               \/ AllOccupied(sheet[FirstOfHighestWeek(sheet, rows)])
          /\ ~ret'.val => sheet' = sheet]_vars

\* the rows add_score chooses among: without a week, only rows whose week
\* number is above 0
RowsEligible(sh, player_name, week) ==
  { i \in RowsMatching(sh, player_name, week) :
      IsNone(week) => SafeInt(sh[i].week) > 0 }

\* C14 amended: add_score returns False exactly when the season does not
\* exist, no row matches the player and the given week (without a week: no
\* matching row has a week number above 0), or all 5 game slots of the
\* target row are occupied; and when it returns False no cell has changed.
C14_FalseExactlyWhen ==
  [][AddScoreStep =>
       LET rows == RowsEligible(sheet, ret'.player_name, ret'.week)
       IN /\ ~ret'.val <=>
               \/ ~SeasonFound(ret'.season)
               \/ rows = {}
               \/ AllOccupied(sheet[FirstOfHighestWeek(sheet, rows)])
          /\ ~ret'.val => sheet' = sheet]_vars

\* add_score without a week returned False although a row of the season
\* matches the player and has a blank slot: its week number is 0
C14_Witness ==
  /\ ret.op = "add_score" /\ ~ret.val
  /\ IsNone(ret.week) /\ SeasonFound(ret.season)
  /\ \E i \in RowsMatching(sheet, ret.player_name, None) :
       ~AllOccupied(sheet[i]) /\ SafeInt(sheet[i].week) = 0

----------------------------------------------------------------------------
(* C15 *)

\* slot k is the lowest-indexed blank slot of the row
LowestBlank(row, k) ==
  BlankCell(row.games[k]) /\ \A j \in 1..(k - 1) : ~BlankCell(row.games[j])

\* row i is the one a write for (player_name, week) goes to: a row of the
\* season whose player cell contains the name, with the given week, or
\* without one with a week number no row of the name exceeds
TargetOf(sh, i, player_name, week) ==
  /\ i \in RowsMatching(sh, player_name, week)
  /\ \A j \in RowsMatching(sh, player_name, week) :
       SafeInt(sh[j].week) <= SafeInt(sh[i].week)
  /\ \A j \in 1..Len(sh) :
       (IsStr(sh[j].player) /\ sh[j].player = sh[i].player
          /\ SeasonEq(sh[j].season, TheSeason) /\ IsNone(week))
         => SafeInt(sh[j].week) <= SafeInt(sh[i].week)

----------------------------------------------------------------------------
(* C16 *)

\* the team names and the player names in the season's records
TeamNames(sh) ==
  { Strip(sh[i].team.v) :
      i \in { j \in 1..Len(sh) : SeasonEq(sh[j].season, TheSeason)
                                  /\ IsStr(sh[j].team) /\ Truthy(sh[j].team) } }

PlayerNames(sh) ==
  { Strip(sh[i].player.v) :
      i \in { j \in 1..Len(sh) : SeasonEq(sh[j].season, TheSeason)
                                  /\ IsStr(sh[j].player) /\ Truthy(sh[j].player) } }

\* the query is contained in no name and contains none, in lower case
MatchesNone(query, names) ==
  \A n \in names :
    /\ ~Contains(Lower(n), Lower(query))
    /\ ~Contains(Lower(query), Lower(n))

IsQuery(op) ==
  op \in { "get_team_scores", "get_team_weekly_summary", "get_league_stats",
           "get_player_scores" }

\* the last call named a team, or a player, that matches no name
UnmatchedName ==
  \/ /\ ret.op = "get_team_scores" /\ Truthy(ret.team_name)
     /\ MatchesNone(ret.team_name.v, TeamNames(sheet))
  \/ /\ ret.op = "get_team_weekly_summary"
     /\ MatchesNone(ret.team_name, TeamNames(sheet))
  \/ /\ ret.op = "get_player_scores" /\ Truthy(ret.player_name)
     /\ MatchesNone(ret.player_name.v, PlayerNames(sheet))

----------------------------------------------------------------------------
(* C17 *)

\* C17: every call returns: a query gives a populated result or an error
\* object, add_score gives a boolean, and none raises to its caller.
C17_Claimed ==
  /\ IsQuery(ret.op) => ret.val.kind # "raise"
  /\ ret.op = "add_score" => ret.val \in BOOLEAN

----------------------------------------------------------------------------
(* C18 *)

\* the step is a call of one of the four queries
QueryStep == adds' = adds /\ IsQuery(ret'.op)

\* the result of making the recorded call again on a sheet
Requery(sh, call) ==
  CASE call.op = "get_team_scores" ->
         GetTeamScores(sh, call.team_name, call.season, call.week)
    [] call.op = "get_team_weekly_summary" ->
         GetTeamWeeklySummary(sh, call.team_name, call.season)
    [] call.op = "get_league_stats" -> GetLeagueStats(sh, call.season)
    [] call.op = "get_player_scores" ->
         GetPlayerScores(sh, call.player_name, call.season, call.week)

----------------------------------------------------------------------------
(* C19 *)

\* the query is contained in the name or the name in the query, lower-cased
Matches(query, n) ==
  Contains(Lower(n), Lower(query)) \/ Contains(Lower(query), Lower(n))

\* rows of the season with a team label, of one week when a week is given
TeamRowsOf(sh, week) ==
  { i \in 1..Len(sh) :
      /\ SeasonEq(sh[i].season, TheSeason)
      /\ IsStr(sh[i].team) /\ Truthy(sh[i].team)
      /\ (IsNone(week) \/ SafeInt(sh[i].week) = week.v) }

\* rows of the season with a player name, of one week when a week is given
PlayerRowsOf(sh, week) ==
  { i \in 1..Len(sh) :
      /\ SeasonEq(sh[i].season, TheSeason)
      /\ IsStr(sh[i].player) /\ Truthy(sh[i].player)
      /\ (IsNone(week) \/ SafeInt(sh[i].week) = week.v) }

\* the first name, in the order the names first appear in the rows `order`,
\* among the names of the rows `cand` that match the query; <<>> when no
\* name matches
FirstIn(query, cand, order, name(_)) ==
  LET hits == { i \in cand : Matches(query, name(i)) }
      seen(n) == MinOf({ j \in order : name(j) = n })
  IN IF hits = {} THEN <<>>
     ELSE name(CHOOSE i \in hits :
                 \A j \in hits : seen(name(i)) <= seen(name(j)))

TeamAt(i) == Strip(sheet[i].team.v)

PlayerAt(i) == Strip(sheet[i].player.v)

\* the call answered for the name `expected` (<<>>: for no name)
NamedTeamIs(expected) ==
  IF expected = <<>> THEN ret.val.kind = "error"
  ELSE \/ ret.val.kind \in {"team", "week"} /\ ret.val.team = expected
       \/ ret.val.kind = "error" /\ ~IsNone(ret.week)

SummaryTeamIs(expected) ==
  IF expected = <<>> THEN ret.val.kind = "error"
  ELSE ret.val.kind = "summary" /\ ret.val.team = expected

NamedPlayerIs(expected) ==
  IF expected = <<>> THEN ret.val.kind = "error"
  ELSE ret.val.kind \in {"player", "player_week"} /\ ret.val.player = expected

NamedTeamCall ==
  /\ ret.op = "get_team_scores" /\ Truthy(ret.team_name)
  /\ SeasonFound(ret.season) /\ ret.val.kind # "raise"

NamedSummaryCall ==
  /\ ret.op = "get_team_weekly_summary"
  /\ SeasonFound(ret.season) /\ ret.val.kind # "raise"

NamedPlayerCall ==
  /\ ret.op = "get_player_scores" /\ Truthy(ret.player_name)
  /\ SeasonFound(ret.season)

\* C19 as claimed: a team or player query resolves its name to the first
\* matching candidate in the order names first appear in the season's rows,
\* and to no match only when no candidate matches.
C19_Claimed ==
  /\ NamedTeamCall =>
       NamedTeamIs(FirstIn(ret.team_name.v, TeamRowsOf(sheet, ret.week),
                           TeamRowsOf(sheet, None), TeamAt))
  /\ NamedSummaryCall =>
       SummaryTeamIs(FirstIn(ret.team_name, TeamRowsOf(sheet, None),
                             TeamRowsOf(sheet, None), TeamAt))
  /\ NamedPlayerCall =>
       NamedPlayerIs(FirstIn(ret.player_name.v, PlayerRowsOf(sheet, ret.week),
                             PlayerRowsOf(sheet, None), PlayerAt))

\* C19 amended: the order is the one in which the names first appear in the
\* rows the query reads: the season's rows, and for a query of one week the
\* season's rows of that week.
C19_FirstCandidate ==
  /\ NamedTeamCall =>
       NamedTeamIs(FirstIn(ret.team_name.v, TeamRowsOf(sheet, ret.week),
                           TeamRowsOf(sheet, ret.week), TeamAt))
  /\ NamedSummaryCall =>
       SummaryTeamIs(FirstIn(ret.team_name, TeamRowsOf(sheet, None),
                             TeamRowsOf(sheet, None), TeamAt))
  /\ NamedPlayerCall =>
       NamedPlayerIs(FirstIn(ret.player_name.v, PlayerRowsOf(sheet, ret.week),
                             PlayerRowsOf(sheet, ret.week), PlayerAt))

\* a query of one week answered for the player who comes first in that
\* week, another matching player of the week coming first in the season
C19_Witness ==
  /\ NamedPlayerCall /\ ~IsNone(ret.week)
  /\ ret.val.kind = "player_week"
  /\ ret.val.player =
       FirstIn(ret.player_name.v, PlayerRowsOf(sheet, ret.week),
               PlayerRowsOf(sheet, ret.week), PlayerAt)
  /\ ret.val.player #
       FirstIn(ret.player_name.v, PlayerRowsOf(sheet, ret.week),
               PlayerRowsOf(sheet, None), PlayerAt)

----------------------------------------------------------------------------
(* C20 *)

\* the rows of the player that the call reads, as row numbers
RowsOfPlayer(sh, p, week) ==
  { i \in 1..Len(sh) : RowOfPlayer(sh[i], p, week) }

\* the two counters of a player's statistics against the player's rows
CountsRows(stats, p) ==
  /\ stats.weeks_absent = Cardinality(AbsentRowsOf(sheet, p, ret.week))
  /\ stats.weeks_played = Cardinality(RowsOfPlayer(sheet, p, ret.week))
                            - Cardinality(AbsentRowsOf(sheet, p, ret.week))
  /\ stats.weeks_played + stats.weeks_absent
       = Cardinality(RowsOfPlayer(sheet, p, ret.week))
  /\ stats.weeks_played >= 0

\* C20: weeks_absent is the number of the player's absent-flagged rows and
\* weeks_played the number of the player's rows minus weeks_absent; they
\* count rows, not games, add up to the player's row count, and
\* weeks_played is never negative.
C20_RowCounts ==
  /\ PlayersReturned =>
       \A p \in DOMAIN ret.val.players : CountsRows(ret.val.players[p], p)
  /\ PlayerReturned => CountsRows(ret.val.stats, ret.val.player)

\* a player with one row played and one row absent, each with two games
C20_Witness ==
  /\ PlayersReturned
  /\ \E p \in DOMAIN ret.val.players :
       /\ ret.val.players[p].weeks_played = 1
       /\ ret.val.players[p].weeks_absent = 1
       /\ Len(ret.val.players[p].scores) = 2
       /\ \A i \in RowsOfPlayer(sheet, p, ret.week) : Len(PlayedGames(sheet[i])) = 2

----------------------------------------------------------------------------
(* C21 *)

\* highest_game and lowest_game of a player's statistics against the
\* player's included scores
ExtremesOf(stats, inc) ==
  IF inc = <<>> THEN stats.highest_game = 0 /\ stats.lowest_game = 0
  ELSE /\ stats.highest_game \in Range(inc)
       /\ stats.lowest_game \in Range(inc)
       /\ \A i \in 1..Len(inc) :
            stats.lowest_game <= inc[i] /\ inc[i] <= stats.highest_game

\* C21: highest_game and lowest_game are the maximum and the minimum of the
\* player's included scores (whole numbers of pins), also for scores above
\* 300, and both are 0 when there is no included score.
C21_HighestAndLowest ==
  /\ PlayersReturned =>
       \A p \in DOMAIN ret.val.players :
         ExtremesOf(ret.val.players[p], IncludedGames(sheet, p, ret.week))
  /\ PlayerReturned =>
       ExtremesOf(ret.val.stats, IncludedGames(sheet, ret.val.player, ret.week))

\* a player whose included scores are all above 300 and differ
C21_Witness ==
  /\ PlayersReturned
  /\ \E p \in DOMAIN ret.val.players :
       /\ ret.val.players[p].lowest_game > 300
       /\ ret.val.players[p].highest_game > ret.val.players[p].lowest_game
       /\ Len(ret.val.players[p].scores) > 2

----------------------------------------------------------------------------
(* C22 *)

\* get_team_scores returned the week-detail view of a team
WeekDetailReturned == ret.op = "get_team_scores" /\ ret.val.kind = "week"

\* the team the detail view's opponent label was resolved to (<<>>: none)
DetailOpponent ==
  GTS_DetailFound(TeamKeys(ScoreRows), ret.val.opponent).team

\* C22: in the week-detail view wins, losses and ties are decided per game
\* slot index, the team's total of slot k being the sum of its
\* non-substitute rows' game cells at slot k of that week, against the
\* opponent's total of slot k.
C22_Claimed ==
  (WeekDetailReturned /\ DetailOpponent # <<>>) =>
    RuleHolds(ret.val,
              SlotTotals(sheet, ret.val.team, ret.week.v),
              SlotTotals(sheet, DetailOpponent, ret.week.v))

----------------------------------------------------------------------------
(* C23 *)

\* C23: whenever get_league_stats succeeds for the season, the STATS command
\* returns the formatted statistics and not an error message, for any
\* number of entries in top_player_weeks.
C23_Claimed ==
  (ret.op = "handle_stats" /\ GetLeagueStats(sheet, ret.season).kind = "league")
    => ret.val.kind = "statistics"

----------------------------------------------------------------------------
(* C24 *)

\* what get_player_scores reports for all players of the same season
AllPlayersOf(season) == GetPlayerScores(sheet, None, season, None)

\* C24: player_averages of get_league_stats is in non-increasing order of
\* average, every player listed has the average get_player_scores reports
\* for that player, and every player get_player_scores reports is listed.
C24_Claimed ==
  LeagueReturned =>
    LET list == ret.val.player_averages
        players == AllPlayersOf(ret.season).players
    IN /\ \A i \in 1..(Len(list) - 1) : list[i].average >= list[i + 1].average
       /\ \A i \in 1..Len(list) :
            /\ list[i].player \in DOMAIN players
            /\ list[i].average = players[list[i].player].average
       /\ \A p \in DOMAIN players : \E i \in 1..Len(list) : list[i].player = p

----------------------------------------------------------------------------
(* C25 *)

\* the player get_player_scores resolves the name to, on the sheet before
\* the write (<<>>: none)
ResolvedPlayer(sh, player_name, season, week) ==
  LET q == GetPlayerScores(sh, Str(player_name), season, week)
  IN IF q.kind \in {"player", "player_week"} THEN q.player ELSE <<>>

\* rows of a player in the season, of the week when one is given
RowsOfResolved(sh, p, week) ==
  { i \in 1..Len(sh) :
      /\ SeasonEq(sh[i].season, TheSeason)
      /\ IsStr(sh[i].player) /\ Strip(sh[i].player.v) = p
      /\ (IsNone(week) \/ SafeInt(sh[i].week) = week.v) }

\* C25: add_score acts on the player that get_player_scores resolves the
\* same query, season and week to: a successful write goes to a row of that
\* player, and with a week given the call fails only when that player's row
\* of the week is full.
C25_Claimed ==
  [][(AddScoreStep /\ SeasonFound(ret'.season)) =>
       LET p == ResolvedPlayer(sheet, ret'.player_name, ret'.season, ret'.week)
           rows == RowsOfResolved(sheet, p, ret'.week)
       IN /\ ret'.val =>
               \E i \in rows, k \in Slots :
                 OnlyWritten(sheet, sheet', i, k, ret'.score)
          /\ (~ret'.val /\ ~IsNone(ret'.week) /\ p # <<>>) =>
               AllOccupied(sheet[MinOf(rows)])]_vars

----------------------------------------------------------------------------
(* C26 *)

\* the header tokens, in lower case
HeaderTokens ==
  { <<"t","e","a","m">>, <<"p","l","a","y","e","r">>,
    <<"t","e","a","m"," ","a","v","e","r","a","g","e","s">>,
    <<"a","v","e","r","a","g","e">>, <<"w","i","n","s">>,
    <<"l","o","s","s","e","s">>, <<"t","i","e","s">> }

\* a label that is blank, whitespace only, or a header token
BlankOrHeader(c) ==
  \/ IsNone(c)
  \/ IsStr(c) /\ (Strip(c.v) = <<>> \/ Lower(Strip(c.v)) \in HeaderTokens)

\* the sheet without the rows whose team or player label is such a label
WithoutHeaderRows(sh) ==
  SelectSeq(sh, LAMBDA r : ~BlankOrHeader(r.team) /\ ~BlankOrHeader(r.player))

\* C26: a row whose team or player label is blank, whitespace only or a
\* header token contributes to no result of the four queries: every result
\* is the one the query gives on the sheet without these rows.
C26_Claimed ==
  IsQuery(ret.op) => ret.val = Requery(WithoutHeaderRows(sheet), ret)

----------------------------------------------------------------------------
(* C27 *)

\* the season total of one field of a team's weekly summary entries, as the
\* 'team X record' command adds them up
RecordTotal(team, wins, losses, ties) ==
  SumOver(GTWS_Weeks(sheet, TheSeason, team),
          [w \in GTWS_Weeks(sheet, TheSeason, team) |->
             wins * SummaryEntry(team, w).wins
               + losses * SummaryEntry(team, w).losses
               + ties * SummaryEntry(team, w).ties])

\* C27: the season wins, losses and ties that get_team_scores returns for a
\* team equal the sums over the weeks of the wins, losses and ties in the
\* weekly summary of the same team.
C27_Claimed ==
  (TeamsReturned /\ IsNone(ret.week)) =>
    \A t \in DOMAIN ret.val.teams :
      /\ ret.val.teams[t].wins = RecordTotal(t, 1, 0, 0)
      /\ ret.val.teams[t].losses = RecordTotal(t, 0, 1, 0)
      /\ ret.val.teams[t].ties = RecordTotal(t, 0, 0, 1)

----------------------------------------------------------------------------
(* C28 *)

\* the step is an ADD_SCORE command
SeriesStep == adds' # adds /\ ret'.op = "handle_add_score"

\* add_score with these arguments returns False on the sheet
Refused(sh, a) == ~AddScore(sh, a[1], a[2], a[3], a[4]).ok

\* C28: over any sequence of add_score calls a game cell that holds a value
\* is never overwritten or cleared; a successful call changes exactly one
\* previously empty game cell of one row and nothing else, any other call
\* changes nothing; and arguments for which add_score returns False keep
\* returning False afterwards.
C28_NeverOverwrites ==
  [][SeriesStep =>
       /\ Len(sheet') = Len(sheet)
       /\ \A i \in 1..Len(sheet), k \in Slots :
            ~BlankCell(sheet[i].games[k]) =>
              sheet'[i].games[k] = sheet[i].games[k]
       /\ ret'.val = "added" =>
            \E i \in 1..Len(sheet), k \in Slots :
              /\ BlankCell(sheet[i].games[k])
              /\ OnlyWritten(sheet, sheet', i, k, ret'.score)
       /\ ret'.val # "added" => sheet' = sheet
       /\ \A a \in SeriesArgs : Refused(sheet, a) => Refused(sheet', a)]_vars

\* a call was refused on a row that earlier calls filled up
C28_Witness ==
  /\ ret.op = "handle_add_score" /\ ret.val = "not_added"
  /\ Refused(sheet, <<ret.player_name, ret.score, ret.week, ret.season>>)
  /\ \E i \in 1..Len(sheet) :
       /\ \A k \in Slots : ~BlankCell(sheet[i].games[k])
       /\ \E k \in Slots : sheet[i].games[k] = Num(ret.score)

----------------------------------------------------------------------------
(* C29 *)

\* the played games the statistics read from row i of a sheet
PlayedCount(sh, i) == Len(PlayedGames(sh[i]))

\* C29: every ADD_SCORE command whose score passes the range check and that
\* is answered as added increases by exactly one the number of played games
\* the statistics read from the row written to.
C29_Claimed ==
  [][(SeriesStep /\ ret'.val = "added") =>
       \E i \in 1..Len(sheet) :
         /\ sheet'[i] # sheet[i]
         /\ PlayedCount(sheet', i) = PlayedCount(sheet, i) + 1]_vars

----------------------------------------------------------------------------
(* C30 *)

\* C30: the opponent that get_team_weekly_summary or get_team_scores
\* resolves a team's opponent label of a week to is never that same team.
C30_Claimed ==
  /\ SummaryReturned =>
       \A w \in DOMAIN ret.val.weekly_summary :
         ResolvedBySummary(ret.val.team, w) # ret.val.team
  /\ TeamsReturned =>
       \A t \in DOMAIN ret.val.teams :
         \A w \in GTS_Weeks(ScoreRows, t) : ResolvedByScores(t, w) # t

====
